---- MODULE Spec2Model ----
(***************************************************************************)
(* Verification model of the transform subsystem of starry-math:           *)
(* Matrix4 (compose, decompose, multiply, invert, projections), Euler and  *)
(* Quaternion conversions.                                                 *)
(*                                                                         *)
(* Numbers.  A JavaScript number is modelled exactly, without rounding:    *)
(* a value is a pair <<n, d>>, the reduced fraction n/d with d > 0, or one *)
(* of the three non-finite values <<1,0>> = +Infinity, <<-1,0>> =          *)
(* -Infinity and <<0,0>> = NaN.  The sign of zero is not modelled.         *)
(*                                                                         *)
(* Angles.  The value of Math.asin / Math.atan2 (an angle in (-pi, pi])    *)
(* is modelled by the direction it denotes: <<"ray", X, Y>> with X, Y      *)
(* coprime integers stands for the angle whose cosine and sine are         *)
(* proportional to X and Y; <<"asin", v>> stands for asin(v) when its      *)
(* cosine is irrational; <<"nan">> is NaN.                                 *)
(***************************************************************************)
EXTENDS Integers, Sequences, FiniteSets, TLC

(***************************************************************************)
(* Exact arithmetic on JavaScript numbers                                  *)
(***************************************************************************)
Abs(i) == IF i < 0 THEN -i ELSE i

Sgn(i) == IF i > 0 THEN 1 ELSE IF i < 0 THEN -1 ELSE 0

RECURSIVE GCD(_, _)
GCD(a, b) == IF b = 0 THEN a ELSE GCD(b, a % b)

\* the reduced fraction n/d (d >= 0); d = 0 gives a non-finite value
Norm(n, d) ==
    IF d = 0 THEN <<Sgn(n), 0>>
    ELSE IF n = 0 THEN <<0, 1>>
    ELSE LET Reduce(g) == <<n \div g, d \div g>> IN Reduce(GCD(Abs(n), d))

\* the integer i as a number
N(i) == <<i, 1>>

Zero == <<0, 1>>

One == <<1, 1>>

NaN == <<0, 0>>

PosInf == <<1, 0>>

IsNaN(a) == a[1] = 0 /\ a[2] = 0

IsFinite(a) == a[2] > 0

Neg(a) == <<-a[1], a[2]>>

\* a * b; Infinity * 0 and NaN * x are NaN
Mul(a, b) ==
    IF a[2] = 0 \/ b[2] = 0 THEN <<Sgn(a[1]) * Sgn(b[1]), 0>>
    ELSE IF a[1] = 0 \/ b[1] = 0 THEN Zero
    ELSE LET Cross(g1, g2) ==
                 <<(a[1] \div g1) * (b[1] \div g2), (a[2] \div g2) * (b[2] \div g1)>>
         IN  Cross(GCD(Abs(a[1]), b[2]), GCD(Abs(b[1]), a[2]))

\* a + b; Infinity + -Infinity and NaN + x are NaN
Add(a, b) ==
    IF a[2] = 0 /\ b[2] = 0 THEN (IF a[1] = b[1] THEN a ELSE NaN)
    ELSE IF a[2] = 0 THEN a
    ELSE IF b[2] = 0 THEN b
    ELSE IF a[2] = b[2] THEN Norm(a[1] + b[1], a[2])
    ELSE LET Sum(g) ==
                 Norm(a[1] * (b[2] \div g) + b[1] * (a[2] \div g), (a[2] \div g) * b[2])
         IN  Sum(GCD(a[2], b[2]))

Sub(a, b) == Add(a, Neg(b))

\* 1 / a; 1 / 0 is Infinity
Inv(a) ==
    IF a[2] = 0 THEN (IF a[1] = 0 THEN NaN ELSE Zero)
    ELSE IF a[1] = 0 THEN PosInf
    ELSE IF a[1] > 0 THEN <<a[2], a[1]>> ELSE <<-a[2], -a[1]>>

\* a / b
Div(a, b) == Mul(a, Inv(b))

\* n1/d1 < n2/d2 for d1, d2 > 0, by continued fractions (no large products)
RECURSIVE FracLt(_, _, _, _)
FracLt(n1, d1, n2, d2) ==
    LET q1 == n1 \div d1
        q2 == n2 \div d2
        r1 == n1 - q1 * d1
        r2 == n2 - q2 * d2
    IN  IF q1 # q2 THEN q1 < q2
        ELSE IF r2 = 0 THEN FALSE
        ELSE IF r1 = 0 THEN TRUE
        ELSE FracLt(d2, r2, d1, r1)

\* a < b; every comparison with NaN is false
Lt(a, b) ==
    IF IsNaN(a) \/ IsNaN(b) THEN FALSE
    ELSE IF a[2] = 0 /\ b[2] = 0 THEN a[1] < b[1]
    ELSE IF a[2] = 0 THEN a[1] < 0
    ELSE IF b[2] = 0 THEN b[1] > 0
    ELSE FracLt(a[1], a[2], b[1], b[2])

Gt(a, b) == Lt(b, a)

\* a <= b
Le(a, b) == (~IsNaN(a) /\ ~IsNaN(b)) /\ ~Lt(b, a)

\* a === b; NaN is not equal to itself
Eq(a, b) == ~IsNaN(a) /\ a = b

NumAbs(a) == <<Abs(a[1]), a[2]>>

\* the integer square root of n >= 0
RECURSIVE SqrtIter(_, _)
SqrtIter(n, x) ==
    LET y == (x + n \div x) \div 2 IN IF y >= x THEN x ELSE SqrtIter(n, y)

ISqrt(n) == IF n < 2 THEN n ELSE SqrtIter(n, IF n > 46340 THEN 46340 ELSE n)

IsSquare(n) == n >= 0 /\ LET Sq(r) == r * r = n IN Sq(ISqrt(n))

\* Math.sqrt has an exact value in the model
HasSqrt(a) == a[2] = 0 \/ a[1] < 0 \/ (IsSquare(a[1]) /\ IsSquare(a[2]))

\* Math.sqrt(a), defined where the root is rational
Sqrt(a) ==
    IF a[2] = 0 THEN (IF a[1] > 0 THEN PosInf ELSE NaN)
    ELSE IF a[1] < 0 THEN NaN
    ELSE <<CHOOSE r \in {ISqrt(a[1])} : r * r = a[1],
           CHOOSE r \in {ISqrt(a[2])} : r * r = a[2]>>

\* a fraction written as numerator / denominator
Q(n, d) == Norm(n, d)

Mul3(a, b, c) == Mul(Mul(a, b), c)

(***************************************************************************)
(* Angles: the values of Math.asin and Math.atan2, and the sines and       *)
(* cosines read back from them                                             *)
(***************************************************************************)
AngleNaN == <<"nan">>

\* the angle whose cosine and sine are proportional to the integers X, Y
Ray(X, Y) ==
    LET Reduce(g) == IF g = 0 THEN <<"ray", 1, 0>> ELSE <<"ray", X \div g, Y \div g>>
    IN  Reduce(GCD(Abs(X), Abs(Y)))

AngleZero == <<"ray", 1, 0>>

\* Math.atan2(y, x)
Atan2(y, x) ==
    IF IsNaN(y) \/ IsNaN(x) THEN AngleNaN
    ELSE IF y[2] = 0 \/ x[2] = 0
         THEN Ray(IF x[2] = 0 THEN x[1] ELSE 0, IF y[2] = 0 THEN y[1] ELSE 0)
    ELSE LET Dir(g) == Ray(x[1] * (y[2] \div g), y[1] * (x[2] \div g))
         IN  Dir(GCD(x[2], y[2]))

\* Math.asin(v)
Asin(v) ==
    IF IsNaN(v) \/ Lt(One, v) \/ Lt(v, Neg(One)) THEN AngleNaN
    ELSE LET A  == v[2] - v[1]
             B  == v[2] + v[1]
             Angle(g, rA, rB) ==
                 IF rA * rA * g = A /\ rB * rB * g = B
                 THEN Ray(g * rA * rB, v[1])
                 ELSE <<"asin", v>>
             Roots(g) == Angle(g, ISqrt(A \div g), ISqrt(B \div g))
         IN  Roots(GCD(A, B))

\* the length of the integer vector (X, Y) of a ray
RayLen(a) == Sqrt(N(a[2] * a[2] + a[3] * a[3]))

\* Math.cos(a)
Cos(a) == IF a[1] = "ray" THEN Div(N(a[2]), RayLen(a)) ELSE NaN

\* Math.sin(a)
Sin(a) ==
    IF a[1] = "ray" THEN Div(N(a[3]), RayLen(a))
    ELSE IF a[1] = "asin" THEN a[2] ELSE NaN

\* Math.cos(a / 2), for a in (-pi, pi]
CosHalf(a) ==
    IF a[1] = "ray" THEN Sqrt(Div(Add(One, Cos(a)), N(2))) ELSE NaN

\* Math.sin(a / 2), for a in (-pi, pi]
SinHalf(a) ==
    IF a[1] = "ray"
    THEN LET r == Sqrt(Div(Sub(One, Cos(a)), N(2)))
         IN  IF a[3] < 0 THEN Neg(r) ELSE r
    ELSE NaN

\* the angle whose half has cosine c/h and sine s/h (c >= 0, c*c + s*s = h*h)
FromHalf(c, s) == Ray(c * c - s * s, 2 * c * s)

(***************************************************************************)
(* MathUtils.clamp                                                         *)
(***************************************************************************)
\* clamp without the upper limit
clampFromBelow(num, min, max) ==
    IF Lt(num, min) THEN min
    ELSE num

\* MathUtils.clamp(num, min, max)
clamp(num, min, max) ==
    IF Lt(num, min) THEN min
    ELSE IF Gt(num, max) THEN max
    ELSE num

(***************************************************************************)
(* Euler                                                                   *)
(***************************************************************************)
XYZ == 0

YZX == 1

ZXY == 2

XZY == 3

YXZ == 4

ZYX == 5

EulerOrder == {XYZ, YZX, ZXY, XZY, YXZ, ZYX}

\* new Euler(x, y, z, order)
Euler(x, y, z, order) == [x |-> x, y |-> y, z |-> z, order |-> order]

\* the gimbal-lock threshold 0.9999999
PoleLimit == <<9999999, 10000000>>

\* te[i] of a 16-element array (the source indexes from 0)
At(te, i) == te[i + 1]

\* the XYZ case taking the ordinary branch up to and including 0.9999999
setFromRotationMatrixXYZInclusive(e, te) ==
    LET
        m11 == At(te, 0)
        m12 == At(te, 4)
        m13 == At(te, 8)
        m22 == At(te, 5)
        m23 == At(te, 9)
        m32 == At(te, 6)
        m33 == At(te, 10)
    IN  IF Le(NumAbs(m13), PoleLimit)
        THEN [e EXCEPT !.y = Asin(clamp(m13, Neg(One), One)),
                       !.x = Atan2(Neg(m23), m33),
                       !.z = Atan2(Neg(m12), m11)]
        ELSE [e EXCEPT !.y = Asin(clamp(m13, Neg(One), One)),
                       !.x = Atan2(m32, m22),
                       !.z = AngleZero]

\* case EulerOrder.XYZ of Euler.setFromRotationMatrix
setFromRotationMatrixXYZ(e, te) ==
    LET
        m11 == At(te, 0)
        m12 == At(te, 4)
        m13 == At(te, 8)
        m22 == At(te, 5)
        m23 == At(te, 9)
        m32 == At(te, 6)
        m33 == At(te, 10)
    IN  IF Lt(NumAbs(m13), PoleLimit)
        THEN [e EXCEPT !.y = Asin(clamp(m13, Neg(One), One)),
                       !.x = Atan2(Neg(m23), m33),
                       !.z = Atan2(Neg(m12), m11)]
        ELSE [e EXCEPT !.y = Asin(clamp(m13, Neg(One), One)),
                       !.x = Atan2(m32, m22),
                       !.z = AngleZero]

\* case EulerOrder.YXZ of Euler.setFromRotationMatrix
setFromRotationMatrixYXZ(e, te) ==
    LET
        m11 == At(te, 0)
        m13 == At(te, 8)
        m21 == At(te, 1)
        m22 == At(te, 5)
        m23 == At(te, 9)
        m31 == At(te, 2)
        m33 == At(te, 10)
    IN  IF Lt(NumAbs(m23), PoleLimit)
        THEN [e EXCEPT !.x = Asin(Neg(clamp(m23, Neg(One), One))),
                       !.y = Atan2(m13, m33),
                       !.z = Atan2(m21, m22)]
        ELSE [e EXCEPT !.x = Asin(Neg(clamp(m23, Neg(One), One))),
                       !.y = Atan2(Neg(m31), m11),
                       !.z = AngleZero]

\* case EulerOrder.ZXY of Euler.setFromRotationMatrix
setFromRotationMatrixZXY(e, te) ==
    LET
        m11 == At(te, 0)
        m12 == At(te, 4)
        m21 == At(te, 1)
        m22 == At(te, 5)
        m31 == At(te, 2)
        m32 == At(te, 6)
        m33 == At(te, 10)
    IN  IF Lt(NumAbs(m32), PoleLimit)
        THEN [e EXCEPT !.x = Asin(clamp(m32, Neg(One), One)),
                       !.y = Atan2(Neg(m31), m33),
                       !.z = Atan2(Neg(m12), m22)]
        ELSE [e EXCEPT !.x = Asin(clamp(m32, Neg(One), One)),
                       !.y = AngleZero,
                       !.z = Atan2(m21, m11)]

\* case EulerOrder.ZYX of Euler.setFromRotationMatrix
setFromRotationMatrixZYX(e, te) ==
    LET
        m11 == At(te, 0)
        m12 == At(te, 4)
        m21 == At(te, 1)
        m22 == At(te, 5)
        m31 == At(te, 2)
        m32 == At(te, 6)
        m33 == At(te, 10)
    IN  IF Lt(NumAbs(m31), PoleLimit)
        THEN [e EXCEPT !.y = Asin(Neg(clamp(m31, Neg(One), One))),
                       !.x = Atan2(m32, m33),
                       !.z = Atan2(m21, m11)]
        ELSE [e EXCEPT !.y = Asin(Neg(clamp(m31, Neg(One), One))),
                       !.x = AngleZero,
                       !.z = Atan2(Neg(m12), m22)]

\* case EulerOrder.YZX of Euler.setFromRotationMatrix
setFromRotationMatrixYZX(e, te) ==
    LET
        m11 == At(te, 0)
        m13 == At(te, 8)
        m21 == At(te, 1)
        m22 == At(te, 5)
        m23 == At(te, 9)
        m31 == At(te, 2)
        m33 == At(te, 10)
    IN  IF Lt(NumAbs(m21), PoleLimit)
        THEN [e EXCEPT !.z = Asin(clamp(m21, Neg(One), One)),
                       !.x = Atan2(Neg(m23), m22),
                       !.y = Atan2(Neg(m31), m11)]
        ELSE [e EXCEPT !.z = Asin(clamp(m21, Neg(One), One)),
                       !.x = AngleZero,
                       !.y = Atan2(m13, m33)]

\* case EulerOrder.XZY of Euler.setFromRotationMatrix
setFromRotationMatrixXZY(e, te) ==
    LET
        m11 == At(te, 0)
        m12 == At(te, 4)
        m13 == At(te, 8)
        m22 == At(te, 5)
        m23 == At(te, 9)
        m32 == At(te, 6)
        m33 == At(te, 10)
    IN  IF Lt(NumAbs(m12), PoleLimit)
        THEN [e EXCEPT !.z = Asin(Neg(clamp(m12, Neg(One), One))),
                       !.x = Atan2(m32, m22),
                       !.y = Atan2(m13, m11)]
        ELSE [e EXCEPT !.z = Asin(Neg(clamp(m12, Neg(One), One))),
                       !.x = Atan2(Neg(m23), m33),
                       !.y = AngleZero]

\* Euler.setFromRotationMatrix(m) on the Euler e; te is m.toArray()
setFromRotationMatrix(e, te) ==
    CASE e.order = XYZ -> setFromRotationMatrixXYZ(e, te)
      [] e.order = YXZ -> setFromRotationMatrixYXZ(e, te)
      [] e.order = ZXY -> setFromRotationMatrixZXY(e, te)
      [] e.order = ZYX -> setFromRotationMatrixZYX(e, te)
      [] e.order = YZX -> setFromRotationMatrixYZX(e, te)
      [] e.order = XZY -> setFromRotationMatrixXZY(e, te)

(***************************************************************************)
(* Quaternion                                                              *)
(***************************************************************************)
\* new Quaternion(x, y, z, w)
Quaternion(x, y, z, w) == [x |-> x, y |-> y, z |-> z, w |-> w]

\* the XYZ case with the s1 * s2 * s3 term of w added
setFromEulerXYZAdded(c1, c2, c3, s1, s2, s3) ==
    Quaternion(Add(Mul3(s1, c2, c3), Mul3(c1, s2, s3)),
               Sub(Mul3(c1, s2, c3), Mul3(s1, c2, s3)),
               Add(Mul3(c1, c2, s3), Mul3(s1, s2, c3)),
               Add(Mul3(c1, c2, c3), Mul3(s1, s2, s3)))

\* case EulerOrder.XYZ of Quaternion.setFromEuler
setFromEulerXYZ(c1, c2, c3, s1, s2, s3) ==
    Quaternion(Add(Mul3(s1, c2, c3), Mul3(c1, s2, s3)),
               Sub(Mul3(c1, s2, c3), Mul3(s1, c2, s3)),
               Add(Mul3(c1, c2, s3), Mul3(s1, s2, c3)),
               Sub(Mul3(c1, c2, c3), Mul3(s1, s2, s3)))

\* case EulerOrder.YXZ of Quaternion.setFromEuler
setFromEulerYXZ(c1, c2, c3, s1, s2, s3) ==
    Quaternion(Add(Mul3(s1, c2, c3), Mul3(c1, s2, s3)),
               Sub(Mul3(c1, s2, c3), Mul3(s1, c2, s3)),
               Sub(Mul3(c1, c2, s3), Mul3(s1, s2, c3)),
               Add(Mul3(c1, c2, c3), Mul3(s1, s2, s3)))

\* case EulerOrder.ZXY of Quaternion.setFromEuler
setFromEulerZXY(c1, c2, c3, s1, s2, s3) ==
    Quaternion(Sub(Mul3(s1, c2, c3), Mul3(c1, s2, s3)),
               Add(Mul3(c1, s2, c3), Mul3(s1, c2, s3)),
               Add(Mul3(c1, c2, s3), Mul3(s1, s2, c3)),
               Sub(Mul3(c1, c2, c3), Mul3(s1, s2, s3)))

\* case EulerOrder.ZYX of Quaternion.setFromEuler
setFromEulerZYX(c1, c2, c3, s1, s2, s3) ==
    Quaternion(Sub(Mul3(s1, c2, c3), Mul3(c1, s2, s3)),
               Add(Mul3(c1, s2, c3), Mul3(s1, c2, s3)),
               Sub(Mul3(c1, c2, s3), Mul3(s1, s2, c3)),
               Add(Mul3(c1, c2, c3), Mul3(s1, s2, s3)))

\* case EulerOrder.YZX of Quaternion.setFromEuler
setFromEulerYZX(c1, c2, c3, s1, s2, s3) ==
    Quaternion(Add(Mul3(s1, c2, c3), Mul3(c1, s2, s3)),
               Add(Mul3(c1, s2, c3), Mul3(s1, c2, s3)),
               Sub(Mul3(c1, c2, s3), Mul3(s1, s2, c3)),
               Sub(Mul3(c1, c2, c3), Mul3(s1, s2, s3)))

\* the XZY case with the sign of the s1 * s2 * c3 term of z flipped
setFromEulerXZYFlipped(c1, c2, c3, s1, s2, s3) ==
    Quaternion(Sub(Mul3(s1, c2, c3), Mul3(c1, s2, s3)),
               Sub(Mul3(c1, s2, c3), Mul3(s1, c2, s3)),
               Sub(Mul3(c1, c2, s3), Mul3(s1, s2, c3)),
               Add(Mul3(c1, c2, c3), Mul3(s1, s2, s3)))

\* case EulerOrder.XZY of Quaternion.setFromEuler
setFromEulerXZY(c1, c2, c3, s1, s2, s3) ==
    Quaternion(Sub(Mul3(s1, c2, c3), Mul3(c1, s2, s3)),
               Sub(Mul3(c1, s2, c3), Mul3(s1, c2, s3)),
               Add(Mul3(c1, c2, s3), Mul3(s1, s2, c3)),
               Add(Mul3(c1, c2, c3), Mul3(s1, s2, s3)))

\* Quaternion.setFromEuler(euler): the components written to the receiver
setFromEuler(euler) ==
    LET Components(c1, c2, c3, s1, s2, s3) ==
          CASE euler.order = XYZ -> setFromEulerXYZ(c1, c2, c3, s1, s2, s3)
            [] euler.order = YXZ -> setFromEulerYXZ(c1, c2, c3, s1, s2, s3)
            [] euler.order = ZXY -> setFromEulerZXY(c1, c2, c3, s1, s2, s3)
            [] euler.order = ZYX -> setFromEulerZYX(c1, c2, c3, s1, s2, s3)
            [] euler.order = YZX -> setFromEulerYZX(c1, c2, c3, s1, s2, s3)
            [] euler.order = XZY -> setFromEulerXZY(c1, c2, c3, s1, s2, s3)
    IN  Components(CosHalf(euler.x), CosHalf(euler.y), CosHalf(euler.z),
                   SinHalf(euler.x), SinHalf(euler.y), SinHalf(euler.z))

(***************************************************************************)
(* Vector3                                                                 *)
(***************************************************************************)
\* new Vector3(x, y, z)
Vector3(x, y, z) == [x |-> x, y |-> y, z |-> z]

lengthSquared(v) == Add(Add(Mul(v.x, v.x), Mul(v.y, v.y)), Mul(v.z, v.z))

\* length() without the square root
lengthWithoutSqrt(v) == lengthSquared(v)

\* Vector3.length()
length(v) == Sqrt(lengthSquared(v))

(***************************************************************************)
(* Matrix4: the 16 values in column-major order                            *)
(***************************************************************************)
\* new Matrix4()
Identity ==
    <<One, Zero, Zero, Zero,
      Zero, One, Zero, Zero,
      Zero, Zero, One, Zero,
      Zero, Zero, Zero, One>>

\* the array te with te[i] = v for every pair <<i, v>> of the sequence ws,
\* written in order (indexes from 0)
RECURSIVE Assign(_, _)
Assign(te, ws) ==
    IF ws = <<>> THEN te
    ELSE Assign([te EXCEPT ![ws[1][1] + 1] = ws[1][2]], Tail(ws))

\* this.setFromEuler(euler) on the quaternion this: the switch on the order
\* has no default, each of its six cases writes x, y, z and w
setQuaternionFromEuler(this, euler) ==
    IF euler.order \in EulerOrder THEN setFromEuler(euler) ELSE this

\* Matrix4.compose(position, euler, scale): the values written; q is the
\* quaternion Matrix4._quat holds after setFromEuler(euler)
compose(q, position, scale) ==
    LET x == q.x  y == q.y  z == q.z  w == q.w
        sx == scale.x  sy == scale.y  sz == scale.z
        Values(xx, xy, xz, yy, yz, zz, wx, wy, wz) ==
         << Mul(Sub(One, Add(yy, zz)), sx),
           Mul(Add(xy, wz), sx),
           Mul(Sub(xz, wy), sx),
           Zero,
           Mul(Sub(xy, wz), sy),
           Mul(Sub(One, Add(xx, zz)), sy),
           Mul(Add(yz, wx), sy),
           Zero,
           Mul(Add(xz, wy), sz),
           Mul(Sub(yz, wx), sz),
           Mul(Sub(One, Add(xx, yy)), sz),
           Zero,
           position.x,
           position.y,
           position.z,
           One >>
        Products(x2, y2, z2) ==
            Values(Mul(x, x2), Mul(x, y2), Mul(x, z2),
                   Mul(y, y2), Mul(y, z2), Mul(z, z2),
                   Mul(w, x2), Mul(w, y2), Mul(w, z2))
    IN  Products(Add(x, x), Add(y, y), Add(z, z))

\* Matrix4.determinant()
determinant(te) ==
    LET n11 == At(te, 0)  n12 == At(te, 4)  n13 == At(te, 8)   n14 == At(te, 12)
        n21 == At(te, 1)  n22 == At(te, 5)  n23 == At(te, 9)   n24 == At(te, 13)
        n31 == At(te, 2)  n32 == At(te, 6)  n33 == At(te, 10)  n34 == At(te, 14)
        n41 == At(te, 3)  n42 == At(te, 7)  n43 == At(te, 11)  n44 == At(te, 15)
    IN  Add(Add(Add(
          Mul(n41, Sub(Add(Add(Sub(Sub(
                Mul3(n14, n23, n32),
                Mul3(n13, n24, n32)),
                Mul3(n14, n22, n33)),
                Mul3(n12, n24, n33)),
                Mul3(n13, n22, n34)),
                Mul3(n12, n23, n34))),
          Mul(n42, Sub(Add(Sub(Add(Sub(
                Mul3(n11, n23, n34),
                Mul3(n11, n24, n33)),
                Mul3(n14, n21, n33)),
                Mul3(n13, n21, n34)),
                Mul3(n13, n24, n31)),
                Mul3(n14, n23, n31)))),
          Mul(n43, Sub(Add(Add(Sub(Sub(
                Mul3(n11, n24, n32),
                Mul3(n11, n22, n34)),
                Mul3(n14, n21, n32)),
                Mul3(n12, n21, n34)),
                Mul3(n14, n22, n31)),
                Mul3(n12, n24, n31)))),
          Mul(n44, Add(Sub(Add(Add(Sub(
                Mul3(Neg(n13), n22, n31),
                Mul3(n11, n23, n32)),
                Mul3(n11, n22, n33)),
                Mul3(n13, n21, n32)),
                Mul3(n12, n21, n33)),
                Mul3(n12, n23, n31))))

\* Matrix4.clone(): the values of the new matrix
clone(te) == [i \in 1..16 |-> te[i]]

\* the scaling applied to the rows of the rotation part instead of its columns
scaleRotationRows(elements, invSX, invSY, invSZ) ==
    Assign(elements, << <<0, Mul(At(elements, 0), invSX)>>,
                        <<4, Mul(At(elements, 4), invSX)>>,
                        <<8, Mul(At(elements, 8), invSX)>>,
                        <<1, Mul(At(elements, 1), invSY)>>,
                        <<5, Mul(At(elements, 5), invSY)>>,
                        <<9, Mul(At(elements, 9), invSY)>>,
                        <<2, Mul(At(elements, 2), invSZ)>>,
                        <<6, Mul(At(elements, 6), invSZ)>>,
                        <<10, Mul(At(elements, 10), invSZ)>> >>)

\* the scaling of the rotation part in Matrix4.decompose: elements[i] *= inv..
scaleRotation(elements, invSX, invSY, invSZ) ==
    Assign(elements, << <<0, Mul(At(elements, 0), invSX)>>,
                        <<1, Mul(At(elements, 1), invSX)>>,
                        <<2, Mul(At(elements, 2), invSX)>>,
                        <<4, Mul(At(elements, 4), invSY)>>,
                        <<5, Mul(At(elements, 5), invSY)>>,
                        <<6, Mul(At(elements, 6), invSY)>>,
                        <<8, Mul(At(elements, 8), invSZ)>>,
                        <<9, Mul(At(elements, 9), invSZ)>>,
                        <<10, Mul(At(elements, 10), invSZ)>> >>)

\* decompose without the negation of sx for a negative determinant
decomposeUnsigned(te, outEuler) ==
    LET Scaled(sx, sy, sz, m1, invSX, invSY, invSZ) ==
          [ value       |-> scaleRotation(te, invSX, invSY, invSZ),
            outPosition |-> Vector3(At(te, 12), At(te, 13), At(te, 14)),
            outScale    |-> Vector3(sx, sy, sz),
            outEuler    |-> setFromRotationMatrix(outEuler, m1) ]
        Signed(sx, sy, sz) ==
            Scaled(sx, sy, sz, clone(te), Inv(sx), Inv(sy), Inv(sz))
    IN  Signed(length(Vector3(At(te, 0), At(te, 1), At(te, 2))),
               length(Vector3(At(te, 4), At(te, 5), At(te, 6))),
               length(Vector3(At(te, 8), At(te, 9), At(te, 10))))

\* Matrix4.decompose(outPosition, outEuler, outScale) where all three column
\* lengths have exact square roots: the receiver and the three out objects
\* after the call
decompose(te, outEuler) ==
    LET Scaled(sx, sy, sz, m1, invSX, invSY, invSZ) ==
          [ value       |-> scaleRotation(te, invSX, invSY, invSZ),
            outPosition |-> Vector3(At(te, 12), At(te, 13), At(te, 14)),
            outScale    |-> Vector3(sx, sy, sz),
            outEuler    |-> setFromRotationMatrix(outEuler, m1) ]
        Signed(sx, sy, sz) ==
            Scaled(sx, sy, sz, clone(te), Inv(sx), Inv(sy), Inv(sz))
        Lengths(sx, sy, sz, det) ==
            Signed(IF Lt(det, Zero) THEN Neg(sx) ELSE sx, sy, sz)
    IN  Lengths(length(Vector3(At(te, 0), At(te, 1), At(te, 2))),
                length(Vector3(At(te, 4), At(te, 5), At(te, 6))),
                length(Vector3(At(te, 8), At(te, 9), At(te, 10))),
                determinant(te))

\* the column lengths decompose takes have exact values in the model
decomposable(te) ==
    /\ HasSqrt(lengthSquared(Vector3(At(te, 0), At(te, 1), At(te, 2))))
    /\ HasSqrt(lengthSquared(Vector3(At(te, 4), At(te, 5), At(te, 6))))
    /\ HasSqrt(lengthSquared(Vector3(At(te, 8), At(te, 9), At(te, 10))))

\* multiplyMatrices writing te[i] while the operands are still being read:
\* each entry is computed from the heap as the earlier writes left it
RECURSIVE WriteInPlace(_, _, _, _)
WriteInPlace(heap, a, b, order) ==
    IF order = <<>> THEN heap.this
    ELSE LET i == Head(order)
             r == i % 4
             c == 4 * (i \div 4)
             Entry(ae, be) ==
                 Add(Add(Add(Mul(At(ae, r), At(be, c)), Mul(At(ae, 4 + r), At(be, c + 1))),
                         Mul(At(ae, 8 + r), At(be, c + 2))), Mul(At(ae, 12 + r), At(be, c + 3)))
             Written(v) == [heap EXCEPT !.this = [@ EXCEPT ![i + 1] = v]]
         IN  WriteInPlace(Written(Entry(heap[a], heap[b])), a, b, Tail(order))

multiplyMatricesInPlace(heap, a, b) ==
    WriteInPlace(heap, a, b, <<0, 4, 8, 12, 1, 5, 9, 13, 2, 6, 10, 14, 3, 7, 11, 15>>)

\* Matrix4.multiplyMatrices(a, b) on the receiver heap.this; a and b name
\* objects of the heap (either may be the receiver itself).  All 32 operand
\* entries are read into locals before te[0] is written.
multiplyMatrices(heap, a, b) ==
    LET ae == heap[a]
        be == heap[b]
        te == heap.this
        a11 == At(ae, 0)  a12 == At(ae, 4)  a13 == At(ae, 8)  a14 == At(ae, 12)
        a21 == At(ae, 1)  a22 == At(ae, 5)  a23 == At(ae, 9)  a24 == At(ae, 13)
        a31 == At(ae, 2)  a32 == At(ae, 6)  a33 == At(ae, 10)  a34 == At(ae, 14)
        a41 == At(ae, 3)  a42 == At(ae, 7)  a43 == At(ae, 11)  a44 == At(ae, 15)
        b11 == At(be, 0)  b12 == At(be, 4)  b13 == At(be, 8)  b14 == At(be, 12)
        b21 == At(be, 1)  b22 == At(be, 5)  b23 == At(be, 9)  b24 == At(be, 13)
        b31 == At(be, 2)  b32 == At(be, 6)  b33 == At(be, 10)  b34 == At(be, 14)
        b41 == At(be, 3)  b42 == At(be, 7)  b43 == At(be, 11)  b44 == At(be, 15)
    IN  Assign(te, <<
          <<0, Add(Add(Add(Mul(a11, b11), Mul(a12, b21)), Mul(a13, b31)), Mul(a14, b41))>>,
          <<4, Add(Add(Add(Mul(a11, b12), Mul(a12, b22)), Mul(a13, b32)), Mul(a14, b42))>>,
          <<8, Add(Add(Add(Mul(a11, b13), Mul(a12, b23)), Mul(a13, b33)), Mul(a14, b43))>>,
          <<12, Add(Add(Add(Mul(a11, b14), Mul(a12, b24)), Mul(a13, b34)), Mul(a14, b44))>>,
          <<1, Add(Add(Add(Mul(a21, b11), Mul(a22, b21)), Mul(a23, b31)), Mul(a24, b41))>>,
          <<5, Add(Add(Add(Mul(a21, b12), Mul(a22, b22)), Mul(a23, b32)), Mul(a24, b42))>>,
          <<9, Add(Add(Add(Mul(a21, b13), Mul(a22, b23)), Mul(a23, b33)), Mul(a24, b43))>>,
          <<13, Add(Add(Add(Mul(a21, b14), Mul(a22, b24)), Mul(a23, b34)), Mul(a24, b44))>>,
          <<2, Add(Add(Add(Mul(a31, b11), Mul(a32, b21)), Mul(a33, b31)), Mul(a34, b41))>>,
          <<6, Add(Add(Add(Mul(a31, b12), Mul(a32, b22)), Mul(a33, b32)), Mul(a34, b42))>>,
          <<10, Add(Add(Add(Mul(a31, b13), Mul(a32, b23)), Mul(a33, b33)), Mul(a34, b43))>>,
          <<14, Add(Add(Add(Mul(a31, b14), Mul(a32, b24)), Mul(a33, b34)), Mul(a34, b44))>>,
          <<3, Add(Add(Add(Mul(a41, b11), Mul(a42, b21)), Mul(a43, b31)), Mul(a44, b41))>>,
          <<7, Add(Add(Add(Mul(a41, b12), Mul(a42, b22)), Mul(a43, b32)), Mul(a44, b42))>>,
          <<11, Add(Add(Add(Mul(a41, b13), Mul(a42, b23)), Mul(a43, b33)), Mul(a44, b43))>>,
          <<15, Add(Add(Add(Mul(a41, b14), Mul(a42, b24)), Mul(a43, b34)), Mul(a44, b44))>> >>)

\* Matrix4.multiply(other)
multiply(heap, other) == multiplyMatrices(heap, "this", other)

\* Matrix4.premultiply(other)
premultiply(heap, other) == multiplyMatrices(heap, other, "this")

\* new Vector4(x, y, z, w)
Vector4(x, y, z, w) == [x |-> x, y |-> y, z |-> z, w |-> w]

\* a PlaneEquation { a, b, c, d }
PlaneEquation(a, b, c, d) == [a |-> a, b |-> b, c |-> c, d |-> d]

\* plane.a * light.x + plane.b * light.y + plane.c * light.z + plane.d * light.w
planeDotLight(plane, light) ==
    Add(Add(Add(Mul(plane.a, light.x), Mul(plane.b, light.y)), Mul(plane.c, light.z)),
        Mul(plane.d, light.w))

\* the shadow matrix with the plane and the light exchanged
shadowMatrixExchanged(plane, light) ==
    LET Written(dt) == Assign(Identity, <<
            <<0, Sub(dt, Mul(plane.a, light.x))>>, <<1, Neg(Mul(plane.b, light.x))>>,
            <<2, Neg(Mul(plane.c, light.x))>>, <<3, Neg(Mul(plane.d, light.x))>>,
            <<4, Neg(Mul(plane.a, light.y))>>, <<5, Sub(dt, Mul(plane.b, light.y))>>,
            <<6, Neg(Mul(plane.c, light.y))>>, <<7, Neg(Mul(plane.d, light.y))>>,
            <<8, Neg(Mul(plane.a, light.z))>>, <<9, Neg(Mul(plane.b, light.z))>>,
            <<10, Sub(dt, Mul(plane.c, light.z))>>, <<11, Neg(Mul(plane.d, light.z))>>,
            <<12, Neg(Mul(plane.a, light.w))>>, <<13, Neg(Mul(plane.b, light.w))>>,
            <<14, Neg(Mul(plane.c, light.w))>>, <<15, Sub(dt, Mul(plane.d, light.w))>> >>)
    IN  Written(planeDotLight(plane, light))

\* Matrix4.dropShadow(plane, light): the entries of mat
shadowMatrix(plane, light) ==
    LET Written(dt) == Assign(Identity, <<
            <<0, Sub(dt, Mul(light.x, plane.a))>>, <<1, Neg(Mul(light.y, plane.a))>>,
            <<2, Neg(Mul(light.z, plane.a))>>, <<3, Neg(Mul(light.w, plane.a))>>,
            <<4, Neg(Mul(light.x, plane.b))>>, <<5, Sub(dt, Mul(light.y, plane.b))>>,
            <<6, Neg(Mul(light.z, plane.b))>>, <<7, Neg(Mul(light.w, plane.b))>>,
            <<8, Neg(Mul(light.x, plane.c))>>, <<9, Neg(Mul(light.y, plane.c))>>,
            <<10, Sub(dt, Mul(light.z, plane.c))>>, <<11, Neg(Mul(light.w, plane.c))>>,
            <<12, Neg(Mul(light.x, plane.d))>>, <<13, Neg(Mul(light.y, plane.d))>>,
            <<14, Neg(Mul(light.z, plane.d))>>, <<15, Sub(dt, Mul(light.w, plane.d))>> >>)
    IN  Written(planeDotLight(plane, light))

\* Matrix4.dropShadow(plane, light) on the receiver's values e
dropShadow(e, plane, light) ==
    multiply([this |-> e, mat |-> shadowMatrix(plane, light)], "mat")

\* Matrix4.invert(): the 16 cofactor entries inv[0..15] computed from s
invCofactors(s) ==
    <<
      \* inv[0]
      Sub(Add(Add(Sub(Sub(Mul3(At(s, 5), At(s, 10), At(s, 15)),
              Mul3(At(s, 5), At(s, 11), At(s, 14))),
              Mul3(At(s, 9), At(s, 6), At(s, 15))),
              Mul3(At(s, 9), At(s, 7), At(s, 14))),
              Mul3(At(s, 13), At(s, 6), At(s, 11))),
              Mul3(At(s, 13), At(s, 7), At(s, 10))),
      \* inv[1]
      Add(Sub(Sub(Add(Add(Mul3(Neg(At(s, 1)), At(s, 10), At(s, 15)),
              Mul3(At(s, 1), At(s, 11), At(s, 14))),
              Mul3(At(s, 9), At(s, 2), At(s, 15))),
              Mul3(At(s, 9), At(s, 3), At(s, 14))),
              Mul3(At(s, 13), At(s, 2), At(s, 11))),
              Mul3(At(s, 13), At(s, 3), At(s, 10))),
      \* inv[2]
      Sub(Add(Add(Sub(Sub(Mul3(At(s, 1), At(s, 6), At(s, 15)),
              Mul3(At(s, 1), At(s, 7), At(s, 14))),
              Mul3(At(s, 5), At(s, 2), At(s, 15))),
              Mul3(At(s, 5), At(s, 3), At(s, 14))),
              Mul3(At(s, 13), At(s, 2), At(s, 7))),
              Mul3(At(s, 13), At(s, 3), At(s, 6))),
      \* inv[3]
      Add(Sub(Sub(Add(Add(Mul3(Neg(At(s, 1)), At(s, 6), At(s, 11)),
              Mul3(At(s, 1), At(s, 7), At(s, 10))),
              Mul3(At(s, 5), At(s, 2), At(s, 11))),
              Mul3(At(s, 5), At(s, 3), At(s, 10))),
              Mul3(At(s, 9), At(s, 2), At(s, 7))),
              Mul3(At(s, 9), At(s, 3), At(s, 6))),
      \* inv[4]
      Add(Sub(Sub(Add(Add(Mul3(Neg(At(s, 4)), At(s, 10), At(s, 15)),
              Mul3(At(s, 4), At(s, 11), At(s, 14))),
              Mul3(At(s, 8), At(s, 6), At(s, 15))),
              Mul3(At(s, 8), At(s, 7), At(s, 14))),
              Mul3(At(s, 12), At(s, 6), At(s, 11))),
              Mul3(At(s, 12), At(s, 7), At(s, 10))),
      \* inv[5]
      Sub(Add(Add(Sub(Sub(Mul3(At(s, 0), At(s, 10), At(s, 15)),
              Mul3(At(s, 0), At(s, 11), At(s, 14))),
              Mul3(At(s, 8), At(s, 2), At(s, 15))),
              Mul3(At(s, 8), At(s, 3), At(s, 14))),
              Mul3(At(s, 12), At(s, 2), At(s, 11))),
              Mul3(At(s, 12), At(s, 3), At(s, 10))),
      \* inv[6]
      Add(Sub(Sub(Add(Add(Mul3(Neg(At(s, 0)), At(s, 6), At(s, 15)),
              Mul3(At(s, 0), At(s, 7), At(s, 14))),
              Mul3(At(s, 4), At(s, 2), At(s, 15))),
              Mul3(At(s, 4), At(s, 3), At(s, 14))),
              Mul3(At(s, 12), At(s, 2), At(s, 7))),
              Mul3(At(s, 12), At(s, 3), At(s, 6))),
      \* inv[7]
      Sub(Add(Add(Sub(Sub(Mul3(At(s, 0), At(s, 6), At(s, 11)),
              Mul3(At(s, 0), At(s, 7), At(s, 10))),
              Mul3(At(s, 4), At(s, 2), At(s, 11))),
              Mul3(At(s, 4), At(s, 3), At(s, 10))),
              Mul3(At(s, 8), At(s, 2), At(s, 7))),
              Mul3(At(s, 8), At(s, 3), At(s, 6))),
      \* inv[8]
      Sub(Add(Add(Sub(Sub(Mul3(At(s, 4), At(s, 9), At(s, 15)),
              Mul3(At(s, 4), At(s, 11), At(s, 13))),
              Mul3(At(s, 8), At(s, 5), At(s, 15))),
              Mul3(At(s, 8), At(s, 7), At(s, 13))),
              Mul3(At(s, 12), At(s, 5), At(s, 11))),
              Mul3(At(s, 12), At(s, 7), At(s, 9))),
      \* inv[9]
      Add(Sub(Sub(Add(Add(Mul3(Neg(At(s, 0)), At(s, 9), At(s, 15)),
              Mul3(At(s, 0), At(s, 11), At(s, 13))),
              Mul3(At(s, 8), At(s, 1), At(s, 15))),
              Mul3(At(s, 8), At(s, 3), At(s, 13))),
              Mul3(At(s, 12), At(s, 1), At(s, 11))),
              Mul3(At(s, 12), At(s, 3), At(s, 9))),
      \* inv[10]
      Sub(Add(Add(Sub(Sub(Mul3(At(s, 0), At(s, 5), At(s, 15)),
              Mul3(At(s, 0), At(s, 7), At(s, 13))),
              Mul3(At(s, 4), At(s, 1), At(s, 15))),
              Mul3(At(s, 4), At(s, 3), At(s, 13))),
              Mul3(At(s, 12), At(s, 1), At(s, 7))),
              Mul3(At(s, 12), At(s, 3), At(s, 5))),
      \* inv[11]
      Add(Sub(Sub(Add(Add(Mul3(Neg(At(s, 0)), At(s, 5), At(s, 11)),
              Mul3(At(s, 0), At(s, 7), At(s, 9))),
              Mul3(At(s, 4), At(s, 1), At(s, 11))),
              Mul3(At(s, 4), At(s, 3), At(s, 9))),
              Mul3(At(s, 8), At(s, 1), At(s, 7))),
              Mul3(At(s, 8), At(s, 3), At(s, 5))),
      \* inv[12]
      Add(Sub(Sub(Add(Add(Mul3(Neg(At(s, 4)), At(s, 9), At(s, 14)),
              Mul3(At(s, 4), At(s, 10), At(s, 13))),
              Mul3(At(s, 8), At(s, 5), At(s, 14))),
              Mul3(At(s, 8), At(s, 6), At(s, 13))),
              Mul3(At(s, 12), At(s, 5), At(s, 10))),
              Mul3(At(s, 12), At(s, 6), At(s, 9))),
      \* inv[13]
      Sub(Add(Add(Sub(Sub(Mul3(At(s, 0), At(s, 9), At(s, 14)),
              Mul3(At(s, 0), At(s, 10), At(s, 13))),
              Mul3(At(s, 8), At(s, 1), At(s, 14))),
              Mul3(At(s, 8), At(s, 2), At(s, 13))),
              Mul3(At(s, 12), At(s, 1), At(s, 10))),
              Mul3(At(s, 12), At(s, 2), At(s, 9))),
      \* inv[14]
      Add(Sub(Sub(Add(Add(Mul3(Neg(At(s, 0)), At(s, 5), At(s, 14)),
              Mul3(At(s, 0), At(s, 6), At(s, 13))),
              Mul3(At(s, 4), At(s, 1), At(s, 14))),
              Mul3(At(s, 4), At(s, 2), At(s, 13))),
              Mul3(At(s, 12), At(s, 1), At(s, 6))),
              Mul3(At(s, 12), At(s, 2), At(s, 5))),
      \* inv[15]
      Sub(Add(Add(Sub(Sub(Mul3(At(s, 0), At(s, 5), At(s, 10)),
              Mul3(At(s, 0), At(s, 6), At(s, 9))),
              Mul3(At(s, 4), At(s, 1), At(s, 10))),
              Mul3(At(s, 4), At(s, 2), At(s, 9))),
              Mul3(At(s, 8), At(s, 1), At(s, 6))),
              Mul3(At(s, 8), At(s, 2), At(s, 5)))
    >>

\* invert without the det === 0 return
invertUnguarded(s) ==
    LET Scaled(inv, det) == [i \in 1..16 |-> Mul(inv[i], det)]
        Det(inv) ==
            Scaled(inv, Inv(Add(Add(Add(Mul(At(s, 0), At(inv, 0)), Mul(At(s, 1), At(inv, 4))),
                                    Mul(At(s, 2), At(inv, 8))), Mul(At(s, 3), At(inv, 12)))))
    IN  Det(invCofactors(s))

\* invert storing the cofactors without the division by det
invertUnscaled(s) ==
    LET Checked(inv, det) == IF Eq(det, Zero) THEN s ELSE inv
        Det(inv) ==
            Checked(inv, Add(Add(Add(Mul(At(s, 0), At(inv, 0)), Mul(At(s, 1), At(inv, 4))),
                                 Mul(At(s, 2), At(inv, 8))), Mul(At(s, 3), At(inv, 12))))
    IN  Det(invCofactors(s))

\* the sum s[0] * inv[0] + s[1] * inv[1] + s[2] * inv[2] + s[3] * inv[3]
invertDetAlongColumn(s) ==
    LET Det(inv) ==
            Add(Add(Add(Mul(At(s, 0), At(inv, 0)), Mul(At(s, 1), At(inv, 1))),
                    Mul(At(s, 2), At(inv, 2))), Mul(At(s, 3), At(inv, 3)))
    IN  Det(invCofactors(s))

\* Matrix4.invert(): det = s[0] * inv[0] + s[1] * inv[4] + s[2] * inv[8] +
\* s[3] * inv[12], before it is replaced by 1 / det
invertDet(s) ==
    LET Det(inv) ==
            Add(Add(Add(Mul(At(s, 0), At(inv, 0)), Mul(At(s, 1), At(inv, 4))),
                    Mul(At(s, 2), At(inv, 8))), Mul(At(s, 3), At(inv, 12)))
    IN  Det(invCofactors(s))

\* Matrix4.invert(): the receiver's values after the call
invert(s) ==
    LET Scaled(inv, det) == [i \in 1..16 |-> Mul(inv[i], det)]
        Checked(inv, det) == IF Eq(det, Zero) THEN s ELSE Scaled(inv, Inv(det))
    IN  Checked(invCofactors(s), invertDet(s))

\* the values Matrix4.ortho writes once its guard has passed
orthoValues(e, left, right, bottom, top, near, far) ==
         LET rw == Inv(Sub(right, left))
             rh == Inv(Sub(top, bottom))
             rd == Inv(Sub(far, near))
         IN  Assign(e, << <<0, Mul(N(2), rw)>>, <<1, Zero>>, <<2, Zero>>, <<3, Zero>>,
                          <<4, Zero>>, <<5, Mul(N(2), rh)>>, <<6, Zero>>, <<7, Zero>>,
                          <<8, Zero>>, <<9, Zero>>, <<10, Mul(N(-2), rd)>>, <<11, Zero>>,
                          <<12, Mul(Neg(Add(right, left)), rw)>>,
                          <<13, Mul(Neg(Add(top, bottom)), rh)>>,
                          <<14, Mul(Neg(Add(far, near)), rd)>>,
                          <<15, One>> >>)

\* ortho without the bottom === top test
orthoBottomTopUnguarded(e, left, right, bottom, top, near, far) ==
    IF Eq(left, right) \/ Eq(near, far) THEN e
    ELSE orthoValues(e, left, right, bottom, top, near, far)

\* Matrix4.ortho(left, right, bottom, top, near, far)
ortho(e, left, right, bottom, top, near, far) ==
    IF Eq(left, right) \/ Eq(bottom, top) \/ Eq(near, far) THEN e
    ELSE orthoValues(e, left, right, bottom, top, near, far)

\* the values Matrix4.frustum writes once its guards have passed
frustumValues(e, left, right, bottom, top, near, far) ==
         LET rw == Inv(Sub(right, left))
             rh == Inv(Sub(top, bottom))
             rd == Inv(Sub(far, near))
         IN  Assign(e, << <<0, Mul(Mul(N(2), near), rw)>>, <<1, Zero>>, <<2, Zero>>, <<3, Zero>>,
                          <<4, Zero>>, <<5, Mul(Mul(N(2), near), rh)>>, <<6, Zero>>, <<7, Zero>>,
                          <<8, Mul(Add(right, left), rw)>>,
                          <<9, Mul(Add(top, bottom), rh)>>,
                          <<10, Mul(Neg(Add(far, near)), rd)>>,
                          <<11, N(-1)>>,
                          <<12, Zero>>, <<13, Zero>>,
                          <<14, Mul(Mul(Mul(N(-2), near), far), rd)>>,
                          <<15, Zero>> >>)

\* frustum without the near <= 0 return
frustumNearUnguarded(e, left, right, bottom, top, near, far) ==
    IF Eq(left, right) \/ Eq(top, bottom) \/ Eq(near, far) THEN e
    ELSE IF Le(far, Zero) THEN e
    ELSE frustumValues(e, left, right, bottom, top, near, far)

\* Matrix4.frustum(left, right, bottom, top, near, far)
frustum(e, left, right, bottom, top, near, far) ==
    IF Eq(left, right) \/ Eq(top, bottom) \/ Eq(near, far) THEN e
    ELSE IF Le(near, Zero) THEN e
    ELSE IF Le(far, Zero) THEN e
    ELSE frustumValues(e, left, right, bottom, top, near, far)

\* the values Matrix4.perspective writes once its guards have passed; s is
\* Math.sin(fovRad)
perspectiveValues(e, fovRad, s, aspect, near, far) ==
              LET rd == Inv(Sub(far, near))
                  ct == Div(Cos(fovRad), s)
              IN  Assign(e, << <<0, Div(ct, aspect)>>, <<1, Zero>>, <<2, Zero>>, <<3, Zero>>,
                               <<4, Zero>>, <<5, ct>>, <<6, Zero>>, <<7, Zero>>,
                               <<8, Zero>>, <<9, Zero>>,
                               <<10, Mul(Neg(Add(far, near)), rd)>>,
                               <<11, N(-1)>>,
                               <<12, Zero>>, <<13, Zero>>,
                               <<14, Mul(Mul(Mul(N(-2), near), far), rd)>>,
                               <<15, Zero>> >>)

\* Matrix4.perspective(fov, aspect, near, far); the argument fov (degrees) is
\* given by fovRad, the angle Math.PI * fov / 180 / 2 it is converted to
perspective(e, fovRad, aspect, near, far) ==
    IF Eq(near, far) \/ Eq(aspect, Zero) THEN e
    ELSE IF Le(near, Zero) THEN e
    ELSE IF Le(far, Zero) THEN e
    ELSE LET Guarded(s) ==
                 IF Eq(s, Zero) THEN e
                 ELSE perspectiveValues(e, fovRad, s, aspect, near, far)
         IN  Guarded(Sin(fovRad))

\* translate that adds x, y, z to the entries 12, 13, 14
translateAdded(e, x, y, z) ==
    Assign(e, << <<12, Add(At(e, 12), x)>>, <<13, Add(At(e, 13), y)>>,
                 <<14, Add(At(e, 14), z)>> >>)

\* Matrix4.translate(x, y, z) on the receiver's values e
translate(e, x, y, z) ==
    LET Second(e1) ==
            LET Third(e2) ==
                    LET Fourth(e3) ==
                            Assign(e3, << <<15, Add(At(e3, 15),
                                Add(Add(Mul(At(e3, 3), x), Mul(At(e3, 7), y)),
                                    Mul(At(e3, 11), z)))>> >>)
                    IN  Fourth(Assign(e2, << <<14, Add(At(e2, 14),
                                Add(Add(Mul(At(e2, 2), x), Mul(At(e2, 6), y)),
                                    Mul(At(e2, 10), z)))>> >>))
            IN  Third(Assign(e1, << <<13, Add(At(e1, 13),
                        Add(Add(Mul(At(e1, 1), x), Mul(At(e1, 5), y)),
                            Mul(At(e1, 9), z)))>> >>))
    IN  Second(Assign(e, << <<12, Add(At(e, 12),
                Add(Add(Mul(At(e, 0), x), Mul(At(e, 4), y)), Mul(At(e, 8), z)))>> >>))

\* Matrix4.lookAt(eye, target, up) on the receiver's values e
lookAt(e, eye, target, up) ==
    LET Written(fx, fy, fz, sx, sy, sz) ==
            translate(Assign(e, <<
                <<0, sx>>, <<1, Sub(Mul(sy, fz), Mul(sz, fy))>>, <<2, Neg(fx)>>, <<3, Zero>>,
                <<4, sy>>, <<5, Sub(Mul(sz, fx), Mul(sx, fz))>>, <<6, Neg(fy)>>, <<7, Zero>>,
                <<8, sz>>, <<9, Sub(Mul(sx, fy), Mul(sy, fx))>>, <<10, Neg(fz)>>,
                <<11, Zero>>,
                <<12, Zero>>, <<13, Zero>>, <<14, Zero>>, <<15, One>> >>),
                      Neg(eye.x), Neg(eye.y), Neg(eye.z))
        Side(fx, fy, fz, sx, sy, sz) ==
            LET Scaled(rls) ==
                    Written(fx, fy, fz, Mul(sx, rls), Mul(sy, rls), Mul(sz, rls))
            IN  Scaled(Inv(Sqrt(Add(Add(Mul(sx, sx), Mul(sy, sy)), Mul(sz, sz)))))
        Forward(fx, fy, fz) ==
            Side(fx, fy, fz, Sub(Mul(fy, up.z), Mul(fz, up.y)),
                 Sub(Mul(fz, up.x), Mul(fx, up.z)), Sub(Mul(fx, up.y), Mul(fy, up.x)))
        Normalized(fx, fy, fz) ==
            LET Scaled(rlf) == Forward(Mul(fx, rlf), Mul(fy, rlf), Mul(fz, rlf))
            IN  Scaled(Inv(Sqrt(Add(Add(Mul(fx, fx), Mul(fy, fy)), Mul(fz, fz)))))
    IN  Normalized(Sub(target.x, eye.x), Sub(target.y, eye.y), Sub(target.z, eye.z))

\* the two square roots lookAt takes are exact
lookable(eye, target, up) ==
    LET f == Vector3(Sub(target.x, eye.x), Sub(target.y, eye.y), Sub(target.z, eye.z))
        Unitable(ff) ==
            HasSqrt(lengthSquared(Vector3(Sub(Mul(ff.y, up.z), Mul(ff.z, up.y)),
                                          Sub(Mul(ff.z, up.x), Mul(ff.x, up.z)),
                                          Sub(Mul(ff.x, up.y), Mul(ff.y, up.x)))))
    IN  /\ HasSqrt(lengthSquared(f))
        /\ Unitable(Vector3(Mul(f.x, Inv(length(f))), Mul(f.y, Inv(length(f))),
                            Mul(f.z, Inv(length(f)))))

\* the values Matrix4.rotate writes for the axis length len > 0
rotateValues(a, angle, xAxis, yAxis, zAxis, len) ==
    LET Rotated(x, y, z, s, c, t) ==
            LET a00 == At(a, 0)  a01 == At(a, 1)  a02 == At(a, 2)  a03 == At(a, 3)
                a10 == At(a, 4)  a11 == At(a, 5)  a12 == At(a, 6)  a13 == At(a, 7)
                a20 == At(a, 8)  a21 == At(a, 9)  a22 == At(a, 10)  a23 == At(a, 11)
                b00 == Add(Mul3(x, x, t), c)
                b01 == Add(Mul3(y, x, t), Mul(z, s))
                b02 == Sub(Mul3(z, x, t), Mul(y, s))
                b10 == Sub(Mul3(x, y, t), Mul(z, s))
                b11 == Add(Mul3(y, y, t), c)
                b12 == Add(Mul3(z, y, t), Mul(x, s))
                b20 == Add(Mul3(x, z, t), Mul(y, s))
                b21 == Sub(Mul3(y, z, t), Mul(x, s))
                b22 == Add(Mul3(z, z, t), c)
            IN  Assign(a, <<
                  <<0, Add(Add(Mul(a00, b00), Mul(a10, b01)), Mul(a20, b02))>>,
                  <<1, Add(Add(Mul(a01, b00), Mul(a11, b01)), Mul(a21, b02))>>,
                  <<2, Add(Add(Mul(a02, b00), Mul(a12, b01)), Mul(a22, b02))>>,
                  <<3, Add(Add(Mul(a03, b00), Mul(a13, b01)), Mul(a23, b02))>>,
                  <<4, Add(Add(Mul(a00, b10), Mul(a10, b11)), Mul(a20, b12))>>,
                  <<5, Add(Add(Mul(a01, b10), Mul(a11, b11)), Mul(a21, b12))>>,
                  <<6, Add(Add(Mul(a02, b10), Mul(a12, b11)), Mul(a22, b12))>>,
                  <<7, Add(Add(Mul(a03, b10), Mul(a13, b11)), Mul(a23, b12))>>,
                  <<8, Add(Add(Mul(a00, b20), Mul(a10, b21)), Mul(a20, b22))>>,
                  <<9, Add(Add(Mul(a01, b20), Mul(a11, b21)), Mul(a21, b22))>>,
                  <<10, Add(Add(Mul(a02, b20), Mul(a12, b21)), Mul(a22, b22))>>,
                  <<11, Add(Add(Mul(a03, b20), Mul(a13, b21)), Mul(a23, b22))>> >>)
        Unit(inv, c) ==
            Rotated(Mul(xAxis, inv), Mul(yAxis, inv), Mul(zAxis, inv),
                    Sin(angle), c, Sub(One, c))
    IN  Unit(Inv(len), Cos(angle))

\* rotate with the axis taken as it is, not divided by its length
rotateUnnormalized(a, angle, axis) ==
    LET Normalized(len) ==
            IF Eq(len, Zero) THEN a
            ELSE rotateValues(a, angle, axis.x, axis.y, axis.z, One)
    IN  Normalized(Sqrt(Add(Add(Mul(axis.x, axis.x), Mul(axis.y, axis.y)),
                            Mul(axis.z, axis.z))))

\* rotate without the len === 0 return
rotateUnguarded(a, angle, axis) ==
    LET Normalized(len) == rotateValues(a, angle, axis.x, axis.y, axis.z, len)
    IN  Normalized(Sqrt(Add(Add(Mul(axis.x, axis.x), Mul(axis.y, axis.y)),
                            Mul(axis.z, axis.z))))

\* Matrix4.rotate(angle, axis) on the receiver's values a
rotate(a, angle, axis) ==
    LET Normalized(len) ==
            IF Eq(len, Zero) THEN a
            ELSE rotateValues(a, angle, axis.x, axis.y, axis.z, len)
    IN  Normalized(Sqrt(Add(Add(Mul(axis.x, axis.x), Mul(axis.y, axis.y)),
                            Mul(axis.z, axis.z))))

\* Matrix4.copy(source)
copy(source) == [i \in 1..16 |-> source[i]]

(***************************************************************************)
(* Vector3 methods used by Ray: each gives the receiver's value after the  *)
(* call (this is the receiver's value before it), or the number returned   *)
(***************************************************************************)
\* a >= b
Ge(a, b) == Le(b, a)

\* Math.max(a, b)
Max(a, b) == IF IsNaN(a) \/ IsNaN(b) THEN NaN ELSE IF Lt(a, b) THEN b ELSE a

\* Math.min(a, b)
Min(a, b) == IF IsNaN(a) \/ IsNaN(b) THEN NaN ELSE IF Lt(b, a) THEN b ELSE a

\* new Vector3()
ZeroVector == Vector3(Zero, Zero, Zero)

\* Vector3.set(x, y, z)
setVector(this, x, y, z) == [this EXCEPT !.x = x, !.y = y, !.z = z]

\* Vector3.copy(source)
copyVector(this, source) == setVector(this, source.x, source.y, source.z)

\* Vector3.clone()
cloneVector(this) == Vector3(this.x, this.y, this.z)

\* Vector3.add(vector)
addVector(this, vector) ==
    [this EXCEPT !.x = Add(this.x, vector.x), !.y = Add(this.y, vector.y),
                 !.z = Add(this.z, vector.z)]

\* Vector3.subtract(vector)
subtract(this, vector) ==
    [this EXCEPT !.x = Sub(this.x, vector.x), !.y = Sub(this.y, vector.y),
                 !.z = Sub(this.z, vector.z)]

\* Vector3.multiplyScalar(num)
multiplyScalar(this, num) ==
    [this EXCEPT !.x = Mul(this.x, num), !.y = Mul(this.y, num), !.z = Mul(this.z, num)]

\* Vector3.dot(vector)
dot(this, vector) ==
    Add(Add(Mul(this.x, vector.x), Mul(this.y, vector.y)), Mul(this.z, vector.z))

\* Vector3.distanceToSquared(vector)
distanceToSquared(this, vector) ==
    LET Squares(dx, dy, dz) == Add(Add(Mul(dx, dx), Mul(dy, dy)), Mul(dz, dz))
    IN  Squares(Sub(vector.x, this.x), Sub(vector.y, this.y), Sub(vector.z, this.z))

\* Vector3.distanceTo(vector)
distanceTo(this, vector) == Sqrt(distanceToSquared(this, vector))

\* unit dividing by length() itself
unitUnguarded(this) ==
    LET Divided(len) ==
            [this EXCEPT !.x = Div(this.x, len), !.y = Div(this.y, len),
                         !.z = Div(this.z, len)]
    IN  Divided(length(this))

\* Vector3.unit(): length() || 1 replaces a length of 0 (or NaN) by 1
unit(this) ==
    LET Divided(len) ==
            [this EXCEPT !.x = Div(this.x, len), !.y = Div(this.y, len),
                         !.z = Div(this.z, len)]
        Truthy(len) == IF Eq(len, Zero) \/ IsNaN(len) THEN One ELSE len
    IN  Divided(Truthy(length(this)))

\* new Vector2(x, y)
Vector2(x, y) == [x |-> x, y |-> y]

\* Vector2.unit(): length() || 1 replaces a length of 0 (or NaN) by 1
unitVector2(this) ==
    LET Divided(len) == [this EXCEPT !.x = Div(this.x, len), !.y = Div(this.y, len)]
        Truthy(len) == IF Eq(len, Zero) \/ IsNaN(len) THEN One ELSE len
    IN  Divided(Truthy(Sqrt(Add(Mul(this.x, this.x), Mul(this.y, this.y)))))

\* Vector4.unit(): the components are divided by length() as it is
unitVector4(this) ==
    LET Divided(len) ==
            [this EXCEPT !.x = Div(this.x, len), !.y = Div(this.y, len),
                         !.z = Div(this.z, len), !.w = Div(this.w, len)]
    IN  Divided(Sqrt(Add(Add(Add(Mul(this.x, this.x), Mul(this.y, this.y)),
                             Mul(this.z, this.z)), Mul(this.w, this.w))))

\* Vector3.crossVectors(a, b): the six components are read before this.x is
\* written
crossVectors(this, a, b) ==
    LET ax == a.x  ay == a.y  az == a.z
        bx == b.x  by == b.y  bz == b.z
    IN  [this EXCEPT !.x = Sub(Mul(ay, bz), Mul(az, by)),
                     !.y = Sub(Mul(az, bx), Mul(ax, bz)),
                     !.z = Sub(Mul(ax, by), Mul(ay, bx))]

\* cross with the operands exchanged
crossExchanged(this, vector) == crossVectors(this, vector, this)

\* the linear part of a 4x4 matrix applied to this, before normalization
linearPart(this, e) ==
    [this EXCEPT !.x = Add(Add(Mul(At(e, 0), this.x), Mul(At(e, 4), this.y)),
                           Mul(At(e, 8), this.z)),
                 !.y = Add(Add(Mul(At(e, 1), this.x), Mul(At(e, 5), this.y)),
                           Mul(At(e, 9), this.z)),
                 !.z = Add(Add(Mul(At(e, 2), this.x), Mul(At(e, 6), this.y)),
                           Mul(At(e, 10), this.z))]

\* Vector3.applyMatrix4(matrix): this as a point, divided by the resulting w
applyMatrix4(this, e) ==
    LET Scaled(w) ==
            [this EXCEPT
                !.x = Mul(Add(Add(Add(Mul(At(e, 0), this.x), Mul(At(e, 4), this.y)),
                                  Mul(At(e, 8), this.z)), At(e, 12)), w),
                !.y = Mul(Add(Add(Add(Mul(At(e, 1), this.x), Mul(At(e, 5), this.y)),
                                  Mul(At(e, 9), this.z)), At(e, 13)), w),
                !.z = Mul(Add(Add(Add(Mul(At(e, 2), this.x), Mul(At(e, 6), this.y)),
                                  Mul(At(e, 10), this.z)), At(e, 14)), w)]
    IN  Scaled(Inv(Add(Add(Add(Mul(At(e, 3), this.x), Mul(At(e, 7), this.y)),
                           Mul(At(e, 11), this.z)), At(e, 15))))

\* transformDirection without the final unit()
transformDirectionUnnormalized(this, e) == linearPart(this, e)

\* Vector3.transformDirection(matrix): the linear part only, then unit()
transformDirection(this, e) == unit(linearPart(this, e))

\* Vector3.cross(vector)
cross(this, vector) == crossVectors(this, this, vector)

(***************************************************************************)
(* Ray: a ray is the pair of the values of its origin and direction; st is *)
(* the record of the class-level scratch vectors Ray._vector, _segCenter,  *)
(* _segDir, _diff, _edge1, _edge2 and _normal                              *)
(***************************************************************************)
\* new Ray(origin, direction)
NewRay(origin, direction) == [origin |-> origin, direction |-> direction]

\* new Box3(min, max)
Box3(min, max) == [min |-> min, max |-> max]

\* a method returning null, or the vector it returns
Null == [hit |-> FALSE]

Hit(point) == [hit |-> TRUE, point |-> point]

\* at without target.copy(this.direction): the target is scaled as it is
atWithoutCopy(r, t, target) == addVector(multiplyScalar(target, t), r.origin)

\* Ray.at(t, target): the value of target after the call
at(r, t, target) ==
    addVector(multiplyScalar(copyVector(target, r.direction), t), r.origin)

\* Ray.applyMatrix4(matrix4): the ray after the call
rayApplyMatrix4(r, e) ==
    [r EXCEPT !.origin = applyMatrix4(r.origin, e),
              !.direction = transformDirection(r.direction, e)]

\* Ray.lookAt(v)
rayLookAt(r, v) ==
    [r EXCEPT !.direction = unit(subtract(copyVector(r.direction, v), r.origin))]

\* Ray.recast(t): the ray and the scratch vectors after the call
recast(r, t, st) ==
    LET Moved(vector) ==
            [ ray     |-> [r EXCEPT !.origin = copyVector(r.origin, vector)],
              statics |-> [st EXCEPT !.vector = vector] ]
    IN  Moved(at(r, t, st.vector))

\* closestPointToPoint without the test directionDistance < 0
closestPointToPointUnclamped(r, point) ==
    LET Projected(target, directionDistance) ==
            addVector(multiplyScalar(copyVector(target, r.direction),
                                     directionDistance), r.origin)
        Target(target) == Projected(target, dot(target, r.direction))
    IN  [ ret   |-> Target(subtract(cloneVector(point), r.origin)),
          point |-> point,
          ray   |-> r ]

\* Ray.closestPointToPoint(point): the vector returned, and point and the
\* ray after the call
closestPointToPoint(r, point) ==
    LET Projected(target, directionDistance) ==
            IF Lt(directionDistance, Zero) THEN copyVector(target, r.origin)
            ELSE addVector(multiplyScalar(copyVector(target, r.direction),
                                          directionDistance), r.origin)
        Target(target) == Projected(target, dot(target, r.direction))
    IN  [ ret   |-> Target(subtract(cloneVector(point), r.origin)),
          point |-> point,
          ray   |-> r ]

\* Ray.distanceSqToPoint(point): the number returned and the scratch vectors
\* after the call
distanceSqToPoint(r, point, st) ==
    LET Measured(vector, directionDistance) ==
            IF Lt(directionDistance, Zero)
            THEN [ ret     |-> distanceToSquared(r.origin, point),
                   statics |-> [st EXCEPT !.vector = vector] ]
            ELSE LET Closest(v) ==
                         [ ret     |-> distanceToSquared(v, point),
                           statics |-> [st EXCEPT !.vector = v] ]
                 IN  Closest(addVector(multiplyScalar(copyVector(vector, r.direction),
                                                      directionDistance), r.origin))
        Set(vector) == Measured(vector, dot(vector, r.direction))
    IN  Set(setVector(st.vector, Sub(point.x, r.origin.x), Sub(point.y, r.origin.y),
                      Sub(point.z, r.origin.z)))

\* Ray.intersectBox(box): null or the point returned
intersectBox(r, box) ==
    LET origin == r.origin
        \* the pair tmin, tmax of one axis
        Slab(invdir, lo, hi, o) ==
            IF Ge(invdir, Zero)
            THEN <<Mul(Sub(lo, o), invdir), Mul(Sub(hi, o), invdir)>>
            ELSE <<Mul(Sub(hi, o), invdir), Mul(Sub(lo, o), invdir)>>
        Final(tmin, tmax) ==
            IF Lt(tmax, Zero) THEN Null
            ELSE Hit(at(r, IF Ge(tmin, Zero) THEN tmin ELSE tmax,
                        Vector3(Zero, Zero, Zero)))
        AxisZ(tmin, tmax, tz) ==
            IF Gt(tmin, tz[2]) \/ Gt(tz[1], tmax) THEN Null
            ELSE Final(IF Gt(tz[1], tmin) THEN tz[1] ELSE tmin,
                       IF Lt(tz[2], tmax) THEN tz[2] ELSE tmax)
        AxisY(tx, ty) ==
            IF Gt(tx[1], ty[2]) \/ Gt(ty[1], tx[2]) THEN Null
            ELSE AxisZ(IF Gt(ty[1], tx[1]) THEN ty[1] ELSE tx[1],
                       IF Lt(ty[2], tx[2]) THEN ty[2] ELSE tx[2],
                       Slab(Inv(r.direction.z), box.min.z, box.max.z, origin.z))
    IN  AxisY(Slab(Inv(r.direction.x), box.min.x, box.max.x, origin.x),
              Slab(Inv(r.direction.y), box.min.y, box.max.y, origin.y))

\* the clamp of -b1 without its upper limit
ClampedBelow(b1, segExtent) == Max(Neg(segExtent), Neg(b1))

\* Math.max(0, v) left out
Unbounded(v) == v

\* Math.max(0, v)
NonNegative(v) == Max(Zero, v)

\* Math.min(Math.max(-segExtent, -b1), segExtent)
Clamped(b1, segExtent) == Min(Max(Neg(segExtent), Neg(b1)), segExtent)

\* the branches of Ray.distanceSqToSegment: <<s0, s1, sqrDist>> from a01, b0,
\* b1, c and segExtent
closestParameters(a01, b0, b1, c, segExtent) ==
    LET \* sqrDist = -s0 * s0 + s1 * (s1 + 2 * b1) + c
        Edge(s0, s1) ==
            <<s0, s1, Add(Add(Mul(Neg(s0), s0), Mul(s1, Add(s1, Mul(N(2), b1)))), c)>>
        \* s1 = (s0 > 0) ? end : Math.min(Math.max(-segExtent, -b1), segExtent)
        Corner(s0, end) == Edge(s0, IF Gt(s0, Zero) THEN end ELSE Clamped(b1, segExtent))
        Interior(s0, s1) ==
            <<s0, s1, Add(Add(Mul(s0, Add(Add(s0, Mul(a01, s1)), Mul(N(2), b0))),
                              Mul(s1, Add(Add(Mul(a01, s0), s1), Mul(N(2), b1)))), c)>>
        Regions(det, s0, s1, extDet) ==
            IF Ge(s0, Zero)
            THEN IF Ge(s1, Neg(extDet))
                 THEN IF Le(s1, extDet)
                      THEN Interior(Mul(s0, Inv(det)), Mul(s1, Inv(det)))
                      ELSE Edge(NonNegative(Neg(Add(Mul(a01, segExtent), b0))), segExtent)
                 ELSE Edge(NonNegative(Neg(Add(Mul(a01, Neg(segExtent)), b0))),
                           Neg(segExtent))
            ELSE IF Le(s1, Neg(extDet))
            THEN Corner(NonNegative(Neg(Add(Mul(Neg(a01), segExtent), b0))), Neg(segExtent))
            ELSE IF Le(s1, extDet)
            THEN <<Zero, Clamped(b1, segExtent),
                   Add(Mul(Clamped(b1, segExtent),
                           Add(Clamped(b1, segExtent), Mul(N(2), b1))), c)>>
            ELSE Corner(NonNegative(Neg(Add(Mul(a01, segExtent), b0))), segExtent)
        Parallel(s1) == Edge(NonNegative(Neg(Add(Mul(a01, s1), b0))), s1)
        Branch(det) ==
            IF Gt(det, Zero)
            THEN Regions(det, Sub(Mul(a01, b1), b0), Sub(Mul(a01, b0), b1),
                         Mul(segExtent, det))
            ELSE Parallel(IF Gt(a01, Zero) THEN Neg(segExtent) ELSE segExtent)
    IN  Branch(NumAbs(Sub(One, Mul(a01, a01))))

\* Ray.distanceSqToSegment(v0, v1, pointOnRay, pointOnSegment): the number
\* returned, the two target vectors and the scratch vectors after the call
distanceSqToSegment(r, v0, v1, pointOnRay, pointOnSegment, st) ==
    LET Written(segCenter, segDir, diff, p) ==
            [ ret            |-> p[3],
              pointOnRay     |-> addVector(multiplyScalar(
                                     copyVector(pointOnRay, r.direction), p[1]), r.origin),
              pointOnSegment |-> addVector(multiplyScalar(
                                     copyVector(pointOnSegment, segDir), p[2]), segCenter),
              statics        |-> [st EXCEPT !.segCenter = segCenter, !.segDir = segDir,
                                            !.diff = diff] ]
        Solved(segCenter, segDir, diff) ==
            Written(segCenter, segDir, diff,
                    closestParameters(Neg(dot(r.direction, segDir)), dot(diff, r.direction),
                                      Neg(dot(diff, segDir)), lengthSquared(diff),
                                      Mul(distanceTo(v0, v1), Q(1, 2))))
        Centered(segCenter) ==
            Solved(segCenter, unit(subtract(copyVector(st.segDir, v1), v0)),
                   subtract(copyVector(st.diff, r.origin), segCenter))
    IN  Centered(multiplyScalar(addVector(copyVector(st.segCenter, v0), v1), Q(1, 2)))

\* the second part of Ray.intersectTriangle, once sign and DdN = |D.N| are
\* known: the barycentric tests and the point returned
solveTriangle(r, a, sign, DdN, edge1, edge2, normal, st) ==
    LET Result(ret, e1, e2, diff) ==
            [ ret     |-> ret,
              statics |-> [st EXCEPT !.edge1 = e1, !.edge2 = e2, !.normal = normal,
                                     !.diff = diff] ]
        Solve(diff) ==
            LET Second(e2, DdQxE2) ==
                    IF Lt(DdQxE2, Zero) THEN Result(Null, edge1, e2, diff)
                    ELSE LET First(e1, DdE1xQ) ==
                                 IF Lt(DdE1xQ, Zero) THEN Result(Null, e1, e2, diff)
                                 ELSE IF Gt(Add(DdQxE2, DdE1xQ), DdN)
                                 THEN Result(Null, e1, e2, diff)
                                 ELSE LET Along(QdN) ==
                                              IF Lt(QdN, Zero) THEN Result(Null, e1, e2, diff)
                                              ELSE Result(Hit(at(r, Div(QdN, DdN),
                                                                 Vector3(Zero, Zero, Zero))),
                                                          e1, e2, diff)
                                      IN  Along(Mul(Neg(sign), dot(diff, normal)))
                             Crossed(e1) == First(e1, Mul(sign, dot(r.direction, e1)))
                         IN  Crossed(cross(edge1, diff))
                Crossed2(e2) == Second(e2, Mul(sign, dot(r.direction, e2)))
            IN  Crossed2(crossVectors(edge2, diff, edge2))
        Diff(diff) == Solve(setVector(st.diff, diff.x, diff.y, diff.z))
    IN  Diff(subtract(cloneVector(r.origin), a))

\* intersectTriangle without the test of backfaceCulling
intersectTriangleUnculled(r, a, b, c, backfaceCulling, st) ==
    LET Culled(edge1, edge2, normal) ==
            [ ret     |-> Null,
              statics |-> [st EXCEPT !.edge1 = edge1, !.edge2 = edge2, !.normal = normal] ]
        Facing(DdN, edge1, edge2, normal) ==
            IF Gt(DdN, Zero)
            THEN solveTriangle(r, a, One, DdN, edge1, edge2, normal, st)
            ELSE IF Lt(DdN, Zero)
            THEN solveTriangle(r, a, Neg(One), Neg(DdN), edge1, edge2, normal, st)
            ELSE Culled(edge1, edge2, normal)
        Normal(edge1, edge2, normal) ==
            Facing(dot(r.direction, normal), edge1, edge2, normal)
        Edges(edge1, edge2) == Normal(edge1, edge2, crossVectors(st.normal, edge1, edge2))
        Diffs(diff1, diff2) ==
            Edges(setVector(st.edge1, diff1.x, diff1.y, diff1.z),
                  setVector(st.edge2, diff2.x, diff2.y, diff2.z))
        Returned(res) ==
            [ ret |-> res.ret, statics |-> res.statics,
              a |-> a, b |-> b, c |-> c, ray |-> r ]
    IN  Returned(Diffs(subtract(cloneVector(b), a), subtract(cloneVector(c), a)))

\* Ray.intersectTriangle(a, b, c, backfaceCulling): null or the point
\* returned, and the scratch vectors, the three vertices and the ray after
\* the call
intersectTriangle(r, a, b, c, backfaceCulling, st) ==
    LET Culled(edge1, edge2, normal) ==
            [ ret     |-> Null,
              statics |-> [st EXCEPT !.edge1 = edge1, !.edge2 = edge2, !.normal = normal] ]
        Facing(DdN, edge1, edge2, normal) ==
            IF Gt(DdN, Zero)
            THEN IF backfaceCulling THEN Culled(edge1, edge2, normal)
                 ELSE solveTriangle(r, a, One, DdN, edge1, edge2, normal, st)
            ELSE IF Lt(DdN, Zero)
            THEN solveTriangle(r, a, Neg(One), Neg(DdN), edge1, edge2, normal, st)
            ELSE Culled(edge1, edge2, normal)
        Normal(edge1, edge2, normal) ==
            Facing(dot(r.direction, normal), edge1, edge2, normal)
        Edges(edge1, edge2) == Normal(edge1, edge2, crossVectors(st.normal, edge1, edge2))
        Diffs(diff1, diff2) ==
            Edges(setVector(st.edge1, diff1.x, diff1.y, diff1.z),
                  setVector(st.edge2, diff2.x, diff2.y, diff2.z))
        \* a, b, c and the ray are only read: the differences are taken on clones
        Returned(res) ==
            [ ret |-> res.ret, statics |-> res.statics,
              a |-> a, b |-> b, c |-> c, ray |-> r ]
    IN  Returned(Diffs(subtract(cloneVector(b), a), subtract(cloneVector(c), a)))

(***************************************************************************)
(* MathUtils.mergeSort: arrays are sequences, the index i of the code is   *)
(* the position i + 1; an element is a record with a key and the position  *)
(* id it had in the array given                                            *)
(***************************************************************************)
\* the comparators passed as cb: (a, b) => a - b, (a, b) => b - a, and one
\* that compares the halves of the keys, so that different keys compare equal
Comparators == {"ascending", "descending", "halves"}

\* cb(a, b)
Compare(cb, a, b) ==
    CASE cb = "ascending"  -> a.key - b.key
      [] cb = "descending" -> b.key - a.key
      [] cb = "halves"     -> (a.key \div 2) - (b.key \div 2)

\* the first loop of mergeArray with < 0 in place of <= 0
RECURSIVE mergeWhileBothStrict(_, _, _, _, _, _, _)
mergeWhileBothStrict(arr, i, j, m, r, cb, temp) ==
    IF i <= m /\ j <= r
    THEN IF Compare(cb, arr[i + 1], arr[j + 1]) < 0
         THEN mergeWhileBothStrict(arr, i + 1, j, m, r, cb, Append(temp, arr[i + 1]))
         ELSE mergeWhileBothStrict(arr, i, j + 1, m, r, cb, Append(temp, arr[j + 1]))
    ELSE <<temp, i, j>>

\* the first loop of mergeArray: <<temp, i, j>> when it ends
RECURSIVE mergeWhileBoth(_, _, _, _, _, _, _)
mergeWhileBoth(arr, i, j, m, r, cb, temp) ==
    IF i <= m /\ j <= r
    THEN IF Compare(cb, arr[i + 1], arr[j + 1]) <= 0
         THEN mergeWhileBoth(arr, i + 1, j, m, r, cb, Append(temp, arr[i + 1]))
         ELSE mergeWhileBoth(arr, i, j + 1, m, r, cb, Append(temp, arr[j + 1]))
    ELSE <<temp, i, j>>

\* the second and the third loop: temp.push(arr[i]) while i <= last
RECURSIVE mergeRest(_, _, _, _)
mergeRest(arr, i, end, temp) ==
    IF i <= end THEN mergeRest(arr, i + 1, end, Append(temp, arr[i + 1])) ELSE temp

\* mergeArray(arr, l, m, r, cb): arr after the call
mergeArray(arr, l, m, r, cb) ==
    LET Written(temp) ==
            [t \in 1..Len(arr) |->
                IF l < t /\ t <= l + Len(temp) THEN temp[t - l] ELSE arr[t]]
        Rest(first) ==
            Written(mergeRest(arr, first[3], r, mergeRest(arr, first[2], m, first[1])))
    IN  Rest(mergeWhileBoth(arr, l, m + 1, m, r, cb, << >>))

\* mSort(arr, l, r, cb): arr after the call
RECURSIVE mSort(_, _, _, _)
mSort(arr, l, r, cb) ==
    IF l < r
    THEN mergeArray(mSort(mSort(arr, l, (l + r) \div 2, cb), (l + r) \div 2 + 1, r, cb),
                    l, (l + r) \div 2, r, cb)
    ELSE arr

\* mergeSort(arr, cb): arr after the call
mergeSort(arr, cb) == mSort(arr, 0, Len(arr) - 1, cb)

(***************************************************************************)
(* Rays as objects: a heap vs of Vector3 objects, the identity of an       *)
(* object being its index, and a ray the identities of its two vectors     *)
(***************************************************************************)
\* new Ray(origin, direction): an argument 0 stands for an omitted one,
\* which defaults to a new Vector3(); the heap and the ray after the call
constructRay(vs, origin, direction) ==
    LET Second(vs1, o) ==
            IF direction = 0
            THEN [ vectors |-> Append(vs1, ZeroVector),
                   ray     |-> [origin |-> o, direction |-> Len(vs1) + 1] ]
            ELSE [ vectors |-> vs1, ray |-> [origin |-> o, direction |-> direction] ]
    IN  IF origin = 0 THEN Second(Append(vs, ZeroVector), Len(vs) + 1)
        ELSE Second(vs, origin)

\* this.set(origin, direction): the ray after the call
setRay(this, origin, direction) == [this EXCEPT !.origin = origin, !.direction = direction]

\* this.copy(source): the heap after the call
copyRay(vs, this, source) ==
    LET Direction(vs1) ==
            [vs1 EXCEPT ![this.direction] = copyVector(vs1[this.direction],
                                                       vs1[source.direction])]
    IN  Direction([vs EXCEPT ![this.origin] = copyVector(vs[this.origin],
                                                         vs[source.origin])])

\* a clone that shares the vectors of the source
cloneRayShared(vs, this) == [ vectors |-> vs, ray |-> this ]

\* this.clone(): the heap after the call and the ray returned
cloneRay(vs, this) ==
    LET Copied(made) ==
            [ vectors |-> copyRay(made.vectors, made.ray, this), ray |-> made.ray ]
    IN  Copied(constructRay(vs, 0, 0))

\* this.recast(t): the heap and the scratch vectors after the call
recastRay(vs, this, t, st) ==
    LET Moved(res) ==
            [ vectors |-> [vs EXCEPT ![this.origin] = res.ray.origin],
              statics |-> res.statics ]
    IN  Moved(recast(NewRay(vs[this.origin], vs[this.direction]), t, st))

(***************************************************************************)
(* Inputs                                                                  *)
(***************************************************************************)
\* positions are the multiples k * (1, -2, 3), k in 0..MaxPos
MaxPos == 1

\* a matrix given by its 16 integer values
IntMatrix(v) == [i \in 1..16 |-> N(v[i])]

\* the matrices a client copies into the receiver
SourceMatrices ==
    { IntMatrix(<<1,0,0,0, 0,1,0,0, 0,0,1,0, 0,0,0,1>>),
      IntMatrix(<<0,0,0,0, 0,0,0,0, 0,0,0,0, 0,0,0,0>>),
      IntMatrix(<<2,0,0,0, 0,2,0,0, 0,0,2,0, 0,0,0,1>>),
      IntMatrix(<<1,2,0,1, 0,1,1,0, 2,0,1,1, 1,0,0,2>>),
      IntMatrix(<<1,2,3,4, 2,4,6,8, 0,1,0,1, 1,0,1,0>>),
      IntMatrix(<<1,1,0,0, 1,1,0,0, 0,0,1,0, 0,0,0,1>>),
      IntMatrix(<<-1,0,0,0, 0,1,0,0, 0,0,1,0, 2,0,1,1>>),
      IntMatrix(<<3,4,0,0, -4,3,0,0, 0,0,2,0, 1,1,1,1>>),
      IntMatrix(<<0,0,-1,0, 0,1,0,0, 1,0,0,0, 0,0,0,1>>),
      IntMatrix(<<1,0,0,0, 0,0,0,0, 0,0,3,0, 0,0,0,1>>),
      IntMatrix(<<0,2,0,0, 0,0,2,1, 2,0,0,0, 1,1,0,3>>) }

\* the matrices passed as the other operand of a product
OtherMatrices ==
    { IntMatrix(<<1,2,0,1, 0,1,1,0, 2,0,1,1, 1,0,0,2>>),
      IntMatrix(<<0,1,0,0, -1,0,0,0, 0,0,1,0, 3,0,-2,1>>) }

Positions == { Vector3(N(k), N(-2 * k), N(3 * k)) : k \in 0..MaxPos }

\* the angles whose halves have cosine and sine 1,0 / 4/5,3/5 / 4/5,-3/5 / 3/5,4/5
Angles == { AngleZero, FromHalf(4, 3), FromHalf(4, -3), FromHalf(3, 4) }

AngleTriples == { t \in Angles \X Angles \X Angles : AngleZero \in {t[1], t[2], t[3]} }

EulerInputs == { Euler(t[1], t[2], t[3], o) : t \in AngleTriples, o \in EulerOrder }

\* every triple of angles, for the conversions alone
EulerConversionInputs ==
    { Euler(t[1], t[2], t[3], o) : t \in Angles \X Angles \X Angles, o \in EulerOrder }

\* the pairs given as left/right, bottom/top and near/far
LeftRight == { <<N(-1), N(1)>>, <<N(1), N(1)>> }

BottomTop == { <<N(-1), N(1)>>, <<N(0), N(0)>>, <<N(1), N(3)>> }

NearFar ==
    { <<N(1), N(3)>>, <<N(2), N(2)>>, <<N(-1), N(1)>>, <<N(0), N(1)>>,
      <<N(2), N(-1)>>, <<N(1), N(0)>>, <<N(-2), N(-2)>> }

\* the angles PI * fov / 180 / 2 of the fields of view given to perspective:
\* fov = 0, fov = 2 * atan(3/4), fov = 180 (in degrees)
FovAngles == { AngleZero, Ray(4, 3), Ray(0, 1) }

Aspects == { N(0), N(2), Q(1, 2) }

\* a matrix with the value v at index i and fixed distinct values elsewhere
\* in its upper-left block
BlockMatrix(i, v) ==
    [ <<Q(1, 2), Q(-1, 3), Q(2, 3), Zero,
        Q(1, 4), Q(-3, 4), Q(1, 5), Zero,
        Q(-2, 5), Q(3, 5), Q(1, 6), Zero,
        Zero, Zero, Zero, One>> EXCEPT ![i + 1] = v ]

\* values on both sides of 0.9999999 and of 1
PoleValues ==
    { Zero, Q(1, 2), N(1), N(-1), N(2), Q(-3, 2),
      Q(9999999, 10000000), Q(-9999999, 10000000),
      Q(99999989, 100000000), Q(-99999989, 100000000) }

\* the matrices given to Euler.setFromRotationMatrix: each of the six
\* elements read through asin takes each of the values
RotationMatrices == { BlockMatrix(i, v) : i \in {8, 9, 6, 2, 1, 4}, v \in PoleValues }

\* the axes given to rotate: the zero axis and axes of length 1, 2 and 3
Axes ==
    { Vector3(N(0), N(0), N(0)), Vector3(N(0), N(0), N(1)),
      Vector3(N(0), N(-2), N(0)), Vector3(N(1), N(2), N(2)) }

\* a vector given by three integers
IntVector(x, y, z) == Vector3(N(x), N(y), N(z))

\* the origins of the rays: inside, outside and on the faces of the box
\* (0,0,0)-(2,2,2)
RayOrigins ==
    { IntVector(1, 1, 1), IntVector(-1, 1, 1), IntVector(0, 1, 1), IntVector(2, 1, 1),
      IntVector(1, -3, 1), IntVector(0, -3, 1), IntVector(2, -3, 2), IntVector(1, 1, 5),
      IntVector(0, 2, 0) }

\* the directions of the rays: unit vectors, and (1, 1, 1) which is not one
RayDirections ==
    { IntVector(1, 0, 0), IntVector(-1, 0, 0), IntVector(0, 1, 0), IntVector(0, -1, 0),
      IntVector(0, 0, -1), Vector3(Q(3, 5), Q(4, 5), Zero),
      Vector3(Q(1, 3), Q(2, 3), Q(-2, 3)), IntVector(1, 1, 1) }

RayInputs == { NewRay(o, d) : o \in RayOrigins, d \in RayDirections }

\* boxes with min <= max, one of them flat
Boxes ==
    { Box3(IntVector(0, 0, 0), IntVector(2, 2, 2)),
      Box3(IntVector(-1, 3, 0), IntVector(3, 4, 2)),
      Box3(IntVector(0, 0, 0), IntVector(2, 0, 2)) }

\* triangles <<a, b, c>>: two windings of a triangle in the plane y = 0, a
\* triangle in the plane z = 1, a tilted one and one of zero area
Triangles ==
    { <<IntVector(-1, 0, -1), IntVector(3, 0, -1), IntVector(1, 0, 3)>>,
      <<IntVector(-1, 0, -1), IntVector(1, 0, 3), IntVector(3, 0, -1)>>,
      <<IntVector(0, 0, 1), IntVector(4, 0, 1), IntVector(0, 4, 1)>>,
      <<IntVector(3, 0, 0), IntVector(0, 3, 0), IntVector(0, 0, 3)>>,
      <<IntVector(0, 0, 0), IntVector(1, 0, 0), IntVector(2, 0, 0)>> }

\* segments <<v0, v1>> of rational length, one of length 0
Segments ==
    { <<IntVector(1, 0, 0), IntVector(1, 2, 0)>>,
      <<IntVector(3, 1, 1), IntVector(5, 1, 1)>>,
      <<IntVector(0, 0, 0), IntVector(3, 4, 0)>>,
      <<IntVector(1, 3, 1), IntVector(1, 3, 1)>>,
      <<IntVector(-4, 1, 1), IntVector(-2, 1, 1)>>,
      <<IntVector(1, 1, -3), IntVector(1, 1, 3)>>,
      <<IntVector(1, 5, 1), IntVector(1, -5, 1)>>,
      <<IntVector(4, 6, 1), IntVector(4, -2, 1)>>,
      <<IntVector(0, 2, 3), IntVector(0, 2, 1)>> }

Points ==
    { IntVector(1, 1, 1), IntVector(0, 0, 0), IntVector(3, -1, 2), IntVector(-2, 5, 1),
      IntVector(1, 4, 1), IntVector(5, 5, 5) }

\* the distances given to recast
Distances == { N(2), N(-1) }

\* the receivers and the arguments of compose in the sessions of several calls
HistoryRays ==
    { NewRay(IntVector(1, -3, 1), IntVector(0, 1, 0)),
      NewRay(IntVector(1, 1, 5), Vector3(Q(1, 3), Q(2, 3), Q(-2, 3))) }

HistoryEulers ==
    { Euler(AngleZero, a, FromHalf(3, 4), o) : a \in {AngleZero, FromHalf(4, 3)},
                                               o \in {XYZ, ZYX} }

HistoryScales == { Vector3(N(1), N(1), N(1)), Vector3(N(2), N(1), Q(1, 2)) }

\* the matrix of the translation by (x, y, z)
Translation(x, y, z) == IntMatrix(<<1,0,0,0, 0,1,0,0, 0,0,1,0, x,y,z,1>>)

\* the matrices applied to a ray: translations, a quarter turn about z with
\* a translation, a scaling, and two matrices whose last row is not 0,0,0,1
RayMatrices ==
    { Translation(0, 0, 0), Translation(3, -1, 2), Translation(-2, 0, 5),
      IntMatrix(<<0,1,0,0, -1,0,0,0, 0,0,1,0, 1,1,0,1>>),
      IntMatrix(<<2,0,0,0, 0,2,0,0, 0,0,2,0, 0,0,0,1>>),
      IntMatrix(<<1,0,0,0, 0,1,0,0, 0,0,1,0, 2,0,0,2>>),
      IntMatrix(<<1,0,0,1, 0,1,0,0, 0,0,1,0, 0,0,0,-1>>) }

\* arrays of at most MaxLen elements with keys in 1..MaxKey
MaxLen == 4

MaxKey == 3

\* the array with the given keys
Keyed(keys) == [i \in 1..Len(keys) |-> [key |-> keys[i], id |-> i]]

Arrays == UNION { { Keyed(keys) : keys \in [1..n -> 1..MaxKey] } : n \in 0..MaxLen }

\* the eye, target and up given to lookAt: the view of the tests, views
\* along and across the axes with up of length 1 and 2, up perpendicular to
\* the forward direction or not, eye = target and up along the forward
\* direction
LookAtInputs ==
    { [eye |-> Vector3(N(0), N(0), N(5)), target |-> Vector3(N(0), N(0), N(0)),
       up |-> Vector3(N(0), N(1), N(0))],
      [eye |-> Vector3(N(0), N(0), N(0)), target |-> Vector3(N(3), N(4), N(0)),
       up |-> Vector3(N(0), N(0), N(2))],
      [eye |-> Vector3(N(1), N(1), N(1)), target |-> Vector3(N(4), N(5), N(13)),
       up |-> Vector3(N(0), N(0), N(1))],
      [eye |-> Vector3(N(2), N(-1), N(3)), target |-> Vector3(N(2), N(3), N(0)),
       up |-> Vector3(N(1), N(0), N(0))],
      [eye |-> Vector3(N(1), N(1), N(1)), target |-> Vector3(N(1), N(1), N(1)),
       up |-> Vector3(N(0), N(1), N(0))],
      [eye |-> Vector3(N(0), N(0), N(0)), target |-> Vector3(N(0), N(0), N(2)),
       up |-> Vector3(N(0), N(0), N(1))] }

\* the planes given to dropShadow: the x-z plane of the tests, planes off
\* the origin and the degenerate plane with all coefficients 0
Planes ==
    { PlaneEquation(N(0), N(1), N(0), N(0)),
      PlaneEquation(N(0), N(0), N(1), N(-1)),
      PlaneEquation(N(1), N(2), N(-2), N(3)),
      PlaneEquation(N(0), N(0), N(0), N(0)) }

\* the homogeneous lights: positions (w = 1), a direction (w = 0), a light
\* on the x-z plane, and the light of the tests
Lights ==
    { Vector4(N(0), N(-1), N(0), N(1)),
      Vector4(N(1), N(3), N(2), N(1)),
      Vector4(N(1), N(-2), N(1), N(0)),
      Vector4(N(2), N(0), N(-1), N(1)) }

Scales ==
    { Vector3(N(1), N(1), N(1)),
      Vector3(N(2), N(2), N(2)),
      Vector3(N(2), N(1), Q(1, 2)),
      Vector3(N(1), N(-1), N(1)),
      Vector3(N(-2), N(1), N(-1)) }

(***************************************************************************)
(* The state: one Matrix4 receiver, the class-level scratch quaternion,    *)
(* the objects a client passes to decompose, and the log of calls          *)
(***************************************************************************)
VARIABLES
    m,            \* the receiver's _value
    quat,         \* Matrix4._quat
    outPosition,  \* the Vector3 passed to decompose as outPosition
    outEuler,     \* the Euler passed to decompose / receiving setFromRotationMatrix
    outScale,     \* the Vector3 passed to decompose as outScale
    pre,          \* the receiver's _value before the last call
    hist,         \* the calls made so far, each with its arguments
    pc,           \* the client's position: "new", "ready", "applied", "done"
    ray,          \* the receiver Ray: the values of its origin and direction
    statics,      \* the class-level scratch vectors of Ray
    ret,          \* what the last Ray call returned
    objs,         \* the vectors passed to the last Ray call, after the call
    vectors,      \* the Vector3 objects of the heap, by identity 1, 2, ...
    rays          \* the Ray variables a and b: the identities of their vectors

\* the state of the Ray receiver and of the heap of rays
rayVars == <<ray, statics, ret, objs, vectors, rays>>

vars == <<m, quat, outPosition, outEuler, outScale, pre, hist, pc,
          ray, statics, ret, objs, vectors, rays>>

\* the last call made
last == hist[Len(hist)]

\* the seven static scratch vectors as the class creates them
NewStatics ==
    [ vector |-> ZeroVector, segCenter |-> ZeroVector, segDir |-> ZeroVector,
      diff |-> ZeroVector, edge1 |-> ZeroVector, edge2 |-> ZeroVector,
      normal |-> ZeroVector ]

\* no Ray variable holds a ray yet (identity 0 is no object)
NoRays == [ a |-> [origin |-> 0, direction |-> 0], b |-> [origin |-> 0, direction |-> 0] ]

\* the matrix side before any call
MatrixNew ==
    /\ m = Identity
    /\ quat = Quaternion(Zero, Zero, Zero, One)
    /\ outPosition = Vector3(Zero, Zero, Zero)
    /\ outEuler = Euler(AngleZero, AngleZero, AngleZero, XYZ)
    /\ outScale = Vector3(Zero, Zero, Zero)
    /\ pre = Identity
    /\ hist = << [name |-> "new"] >>
    /\ pc = "new"

\* the Ray side before any call: new Ray() and nothing on the heap
RayNew ==
    /\ ray = NewRay(ZeroVector, ZeroVector)
    /\ statics = NewStatics
    /\ ret = Null
    /\ objs = << >>
    /\ vectors = << >>
    /\ rays = NoRays

Init == MatrixNew /\ RayNew

\* m.copy(source)
Copy(source) ==
    /\ pc = "new"
    /\ m' = copy(source)
    /\ pre' = m
    /\ hist' = Append(hist, [name |-> "copy"])
    /\ pc' = "ready"
    /\ UNCHANGED <<quat, outPosition, outEuler, outScale>>
    /\ UNCHANGED rayVars

\* m.compose(position, euler, scale)
Compose(position, euler, scale) ==
    /\ pc = "new"
    /\ quat' = setQuaternionFromEuler(quat, euler)
    /\ m' = compose(quat', position, scale)
    /\ pre' = m
    /\ hist' = Append(hist, [name |-> "compose", position |-> position,
                             euler |-> euler, scale |-> scale])
    /\ pc' = "ready"
    /\ UNCHANGED <<outPosition, outEuler, outScale>>
    /\ UNCHANGED rayVars

\* m.decompose(outPosition, outEuler, outScale); the first call passes fresh
\* objects, outEuler = new Euler(0, 0, 0, order), of the order the matrix was
\* composed with if it was composed; a second call passes the same three
\* objects again.  The call is taken where the column lengths are rational.
Decompose(order) ==
    /\ \/ pc = "ready" /\ (last.name = "compose" => order = last.euler.order)
       \/ pc = "applied" /\ last.name = "decompose" /\ order = outEuler.order
    /\ decomposable(m)
    /\ LET e == IF pc = "ready" THEN Euler(AngleZero, AngleZero, AngleZero, order)
                ELSE outEuler
       IN  \E r \in {decompose(m, e)} :
           /\ m' = r.value
           /\ outPosition' = r.outPosition
           /\ outEuler' = r.outEuler
           /\ outScale' = r.outScale
    /\ pre' = m
    /\ hist' = Append(hist, [name |-> "decompose"])
    /\ pc' = IF pc = "ready" THEN "applied" ELSE "done"
    /\ UNCHANGED quat
    /\ UNCHANGED rayVars

\* m.invert()
Invert ==
    /\ pc = "ready"
    /\ m' = invert(m)
    /\ pre' = m
    /\ hist' = Append(hist, [name |-> "invert"])
    /\ pc' = "applied"
    /\ UNCHANGED <<quat, outPosition, outEuler, outScale>>
    /\ UNCHANGED rayVars

\* m.multiplyMatrices(a, b), m.multiply(b) and m.premultiply(a): a and b
\* are the receiver itself or the other matrix o
MultiplyMatrices(a, b, o) ==
    /\ pc = "ready"
    /\ last.name = "copy"
    /\ m' = multiplyMatrices([this |-> m, other |-> o], a, b)
    /\ pre' = m
    /\ hist' = Append(hist, [name |-> "multiplyMatrices", a |-> a, b |-> b, other |-> o])
    /\ pc' = "applied"
    /\ UNCHANGED <<quat, outPosition, outEuler, outScale>>
    /\ UNCHANGED rayVars

Multiply(b, o) ==
    /\ pc = "ready"
    /\ last.name = "copy"
    /\ m' = multiply([this |-> m, other |-> o], b)
    /\ pre' = m
    /\ hist' = Append(hist, [name |-> "multiply", a |-> "this", b |-> b, other |-> o])
    /\ pc' = "applied"
    /\ UNCHANGED <<quat, outPosition, outEuler, outScale>>
    /\ UNCHANGED rayVars

Premultiply(a, o) ==
    /\ pc = "ready"
    /\ last.name = "copy"
    /\ m' = premultiply([this |-> m, other |-> o], a)
    /\ pre' = m
    /\ hist' = Append(hist, [name |-> "premultiply", a |-> a, b |-> "this", other |-> o])
    /\ pc' = "applied"
    /\ UNCHANGED <<quat, outPosition, outEuler, outScale>>
    /\ UNCHANGED rayVars

\* m.ortho(left, right, bottom, top, near, far)
Ortho(lr, bt, nf) ==
    /\ pc = "ready"
    /\ last.name = "copy"
    /\ m' = ortho(m, lr[1], lr[2], bt[1], bt[2], nf[1], nf[2])
    /\ pre' = m
    /\ hist' = Append(hist, [name |-> "ortho", lr |-> lr, bt |-> bt, nf |-> nf])
    /\ pc' = "applied"
    /\ UNCHANGED <<quat, outPosition, outEuler, outScale>>
    /\ UNCHANGED rayVars

\* m.frustum(left, right, bottom, top, near, far)
Frustum(lr, bt, nf) ==
    /\ pc = "ready"
    /\ last.name = "copy"
    /\ m' = frustum(m, lr[1], lr[2], bt[1], bt[2], nf[1], nf[2])
    /\ pre' = m
    /\ hist' = Append(hist, [name |-> "frustum", lr |-> lr, bt |-> bt, nf |-> nf])
    /\ pc' = "applied"
    /\ UNCHANGED <<quat, outPosition, outEuler, outScale>>
    /\ UNCHANGED rayVars

\* m.perspective(fov, aspect, near, far)
Perspective(fovRad, aspect, nf) ==
    /\ pc = "ready"
    /\ last.name = "copy"
    /\ m' = perspective(m, fovRad, aspect, nf[1], nf[2])
    /\ pre' = m
    /\ hist' = Append(hist, [name |-> "perspective", fovRad |-> fovRad,
                             aspect |-> aspect, nf |-> nf])
    /\ pc' = "applied"
    /\ UNCHANGED <<quat, outPosition, outEuler, outScale>>
    /\ UNCHANGED rayVars

\* m.rotate(angle, axis)
Rotate(angle, axis) ==
    /\ pc = "ready"
    /\ last.name = "copy"
    /\ m' = rotate(m, angle, axis)
    /\ pre' = m
    /\ hist' = Append(hist, [name |-> "rotate", angle |-> angle, axis |-> axis])
    /\ pc' = "applied"
    /\ UNCHANGED <<quat, outPosition, outEuler, outScale>>
    /\ UNCHANGED rayVars

\* m.lookAt(eye, target, up)
LookAt(eye, target, up) ==
    /\ pc = "ready"
    /\ last.name = "copy"
    /\ lookable(eye, target, up)
    /\ m' = lookAt(m, eye, target, up)
    /\ pre' = m
    /\ hist' = Append(hist, [name |-> "lookAt", eye |-> eye, target |-> target,
                             up |-> up])
    /\ pc' = "applied"
    /\ UNCHANGED <<quat, outPosition, outEuler, outScale>>
    /\ UNCHANGED rayVars

\* m.dropShadow(plane, light)
DropShadow(plane, light) ==
    /\ pc = "ready"
    /\ last.name = "copy"
    /\ m' = dropShadow(m, plane, light)
    /\ pre' = m
    /\ hist' = Append(hist, [name |-> "dropShadow", plane |-> plane, light |-> light])
    /\ pc' = "applied"
    /\ UNCHANGED <<quat, outPosition, outEuler, outScale>>
    /\ UNCHANGED rayVars

\* new Euler(0, 0, 0, order).setFromRotationMatrix(te), kept in outEuler; te
\* is a matrix of its own (first call) or the receiver built before
SetFromRotationMatrix(order, te) ==
    /\ \/ pc = "new" /\ te \in RotationMatrices
       \/ /\ pc = "ready"
          /\ te = m
          /\ last.name = "compose" => order = last.euler.order
    /\ outEuler' = setFromRotationMatrix(Euler(AngleZero, AngleZero, AngleZero, order), te)
    /\ pre' = m
    /\ hist' = Append(hist, [name |-> "setFromRotationMatrix", order |-> order,
                             matrix |-> te])
    /\ pc' = "applied"
    /\ UNCHANGED <<m, quat, outPosition, outScale>>
    /\ UNCHANGED rayVars

\* the state of the matrix side
matrixVars == <<m, quat, outPosition, outEuler, outScale, pre>>

\* a Ray call is the first or the second call of the session
RayCall ==
    /\ pc \in {"new", "ready"}
    /\ pc' = IF pc = "new" THEN "ready" ELSE "applied"
    /\ UNCHANGED <<matrixVars, vectors, rays>>

\* ray.intersectBox(box)
IntersectBox(box) ==
    /\ RayCall
    /\ ret' = intersectBox(ray, box)
    /\ objs' = [box |-> box]
    /\ hist' = Append(hist, [name |-> "intersectBox", receiver |-> ray, box |-> box])
    /\ UNCHANGED <<ray, statics>>

\* ray.intersectTriangle(a, b, c, backfaceCulling)
IntersectTriangle(a, b, c, backfaceCulling) ==
    /\ RayCall
    /\ \E res \in {intersectTriangle(ray, a, b, c, backfaceCulling, statics)} :
           /\ ret' = res.ret
           /\ statics' = res.statics
           /\ objs' = [a |-> res.a, b |-> res.b, c |-> res.c]
           /\ ray' = res.ray
    /\ hist' = Append(hist, [name |-> "intersectTriangle", receiver |-> ray, a |-> a,
                             b |-> b, c |-> c, backfaceCulling |-> backfaceCulling])

\* ray.distanceSqToSegment(v0, v1, pointOnRay, pointOnSegment) with two new
\* vectors as targets
DistanceSqToSegment(v0, v1) ==
    /\ RayCall
    /\ \E res \in {distanceSqToSegment(ray, v0, v1, ZeroVector, ZeroVector, statics)} :
           /\ ret' = res.ret
           /\ statics' = res.statics
           /\ objs' = [v0 |-> v0, v1 |-> v1, pointOnRay |-> res.pointOnRay,
                       pointOnSegment |-> res.pointOnSegment]
    /\ hist' = Append(hist, [name |-> "distanceSqToSegment", receiver |-> ray,
                             v0 |-> v0, v1 |-> v1])
    /\ UNCHANGED ray

\* ray.closestPointToPoint(point)
ClosestPointToPoint(point) ==
    /\ RayCall
    /\ \E res \in {closestPointToPoint(ray, point)} :
           /\ ret' = res.ret
           /\ objs' = [point |-> res.point]
           /\ ray' = res.ray
    /\ hist' = Append(hist, [name |-> "closestPointToPoint", receiver |-> ray,
                             point |-> point])
    /\ UNCHANGED statics

\* ray.distanceSqToPoint(point)
DistanceSqToPoint(point) ==
    /\ RayCall
    /\ \E res \in {distanceSqToPoint(ray, point, statics)} :
           /\ ret' = res.ret
           /\ statics' = res.statics
    /\ objs' = [point |-> point]
    /\ hist' = Append(hist, [name |-> "distanceSqToPoint", receiver |-> ray,
                             point |-> point])
    /\ UNCHANGED ray

\* ray.recast(t)
Recast(t) ==
    /\ RayCall
    /\ \E res \in {recast(ray, t, statics)} :
           /\ ray' = res.ray
           /\ statics' = res.statics
    /\ ret' = Null
    /\ objs' = << >>
    /\ hist' = Append(hist, [name |-> "recast", receiver |-> ray, t |-> t])

Refs == {"this", "other"}

Next ==
    \/ \E source \in SourceMatrices : Copy(source)
    \/ \E position \in Positions, euler \in EulerInputs, scale \in Scales :
           Compose(position, euler, scale)
    \/ \E order \in EulerOrder : Decompose(order)
    \/ Invert
    \/ \E a \in Refs, b \in Refs, o \in OtherMatrices : MultiplyMatrices(a, b, o)
    \/ \E b \in Refs, o \in OtherMatrices : Multiply(b, o)
    \/ \E a \in Refs, o \in OtherMatrices : Premultiply(a, o)
    \/ \E lr \in LeftRight, bt \in BottomTop, nf \in NearFar : Ortho(lr, bt, nf)
    \/ \E lr \in LeftRight, bt \in BottomTop, nf \in NearFar : Frustum(lr, bt, nf)
    \/ \E fovRad \in FovAngles, aspect \in Aspects, nf \in NearFar :
           Perspective(fovRad, aspect, nf)
    \/ \E order \in EulerOrder, te \in RotationMatrices \cup {m} :
           SetFromRotationMatrix(order, te)
    \/ \E angle \in Angles, axis \in Axes : Rotate(angle, axis)
    \/ \E view \in LookAtInputs : LookAt(view.eye, view.target, view.up)
    \/ \E plane \in Planes, light \in Lights : DropShadow(plane, light)

Spec == Init /\ [][Next]_vars

\* the conversions alone: compose from every triple of angles, at the origin
\* and with unit scale, and read the angles back
NextConversion ==
    \/ \E euler \in EulerConversionInputs :
           Compose(Vector3(Zero, Zero, Zero), euler, Vector3(One, One, One))
    \/ \E order \in EulerOrder : SetFromRotationMatrix(order, m)

SpecConversion == Init /\ [][NextConversion]_vars

\* ray.applyMatrix4(matrix4), for a matrix that leaves the direction with a
\* rational length; the call returns the receiver
ApplyMatrix4(matrix4) ==
    /\ RayCall
    /\ HasSqrt(lengthSquared(linearPart(ray.direction, matrix4)))
    /\ ray' = rayApplyMatrix4(ray, matrix4)
    /\ ret' = ray'
    /\ objs' = [matrix4 |-> matrix4]
    /\ hist' = Append(hist, [name |-> "applyMatrix4", receiver |-> ray,
                             matrix4 |-> matrix4])
    /\ UNCHANGED statics

\* compose once more on the receiver that was composed: Matrix4._quat holds
\* the quaternion of the first call
Recompose(position, euler, scale) ==
    /\ pc = "ready"
    /\ last.name = "compose"
    /\ quat' = setQuaternionFromEuler(quat, euler)
    /\ m' = compose(quat', position, scale)
    /\ pre' = m
    /\ hist' = Append(hist, [name |-> "compose", position |-> position,
                             euler |-> euler, scale |-> scale])
    /\ pc' = "applied"
    /\ UNCHANGED <<outPosition, outEuler, outScale>>
    /\ UNCHANGED rayVars

\* MathUtils.mergeSort(arr, cb) on the array the client holds
MergeSort(cb) ==
    /\ pc = "new"
    /\ objs' = [arr |-> mergeSort(objs.arr, cb)]
    /\ hist' = Append(hist, [name |-> "mergeSort", arr |-> objs.arr, cb |-> cb])
    /\ pc' = "done"
    /\ UNCHANGED <<matrixVars, ray, statics, ret, vectors, rays>>

\* the names of the two Ray variables of the client
RayNames == {"a", "b"}

\* the ray variable holds a ray
Built(name) == rays[name].origin # 0

\* the vectors the client holds and passes to the constructor and to set
ClientVectors == << IntVector(1, 2, 3), IntVector(0, 0, 1) >>

\* the identities of the client's vectors, and 0 for an omitted argument
Supplied == 0..Len(ClientVectors)

\* the call as recorded in hist, with the heap before it
HeapCall(call) == call @@ [rays |-> rays, vectors |-> vectors]

\* a call on the heap of rays leaves the matrix side and the receiver of the
\* queries alone
HeapStep == UNCHANGED <<matrixVars, ray, ret, objs>>

\* name = new Ray(origin, direction)
ConstructRay(name, origin, direction) ==
    /\ pc = "new"
    /\ ~Built(name)
    /\ \E res \in {constructRay(vectors, origin, direction)} :
           /\ vectors' = res.vectors
           /\ rays' = [rays EXCEPT ![name] = res.ray]
    /\ hist' = Append(hist, HeapCall([name |-> "construct", this |-> name,
                                      origin |-> origin, direction |-> direction]))
    /\ HeapStep
    /\ UNCHANGED <<pc, statics>>

\* name.set(origin, direction), right after the constructions
SetRay(name, origin, direction) ==
    /\ pc = "new"
    /\ Built(name)
    /\ last.name = "construct"
    /\ rays' = [rays EXCEPT ![name] = setRay(rays[name], origin, direction)]
    /\ hist' = Append(hist, HeapCall([name |-> "set", this |-> name,
                                      origin |-> origin, direction |-> direction]))
    /\ HeapStep
    /\ UNCHANGED <<pc, statics, vectors>>

\* name.copy(source) for two distinct rays
CopyRay(name, source) ==
    /\ pc = "new"
    /\ name # source
    /\ Built(name)
    /\ Built(source)
    /\ vectors' = copyRay(vectors, rays[name], rays[source])
    /\ pc' = "applied"
    /\ hist' = Append(hist, HeapCall([name |-> "copy", this |-> name, source |-> source]))
    /\ HeapStep
    /\ UNCHANGED <<statics, rays>>

\* name = source.clone()
CloneRay(name, source) ==
    /\ pc = "new"
    /\ name # source
    /\ Built(source)
    /\ \E res \in {cloneRay(vectors, rays[source])} :
           /\ vectors' = res.vectors
           /\ rays' = [rays EXCEPT ![name] = res.ray]
    /\ pc' = "applied"
    /\ hist' = Append(hist, HeapCall([name |-> "clone", this |-> name, source |-> source]))
    /\ HeapStep
    /\ UNCHANGED statics

\* name.recast(t) after the copy or the clone
RecastRay(name, t) ==
    /\ pc = "applied"
    /\ Built(name)
    /\ \E res \in {recastRay(vectors, rays[name], t, statics)} :
           /\ vectors' = res.vectors
           /\ statics' = res.statics
    /\ pc' = "done"
    /\ hist' = Append(hist, HeapCall([name |-> "recast", this |-> name, t |-> t]))
    /\ HeapStep
    /\ UNCHANGED rays

\* the Ray queries alone: a ray has been built from given vectors, and one
\* call is made on it
InitRay ==
    /\ m = Identity
    /\ quat = Quaternion(Zero, Zero, Zero, One)
    /\ outPosition = Vector3(Zero, Zero, Zero)
    /\ outEuler = Euler(AngleZero, AngleZero, AngleZero, XYZ)
    /\ outScale = Vector3(Zero, Zero, Zero)
    /\ pre = Identity
    /\ hist = << [name |-> "new"] >>
    /\ pc = "ready"
    /\ ray \in RayInputs
    /\ statics = NewStatics
    /\ ret = Null
    /\ objs = << >>
    /\ vectors = << >>
    /\ rays = NoRays

NextRay ==
    \/ \E box \in Boxes : IntersectBox(box)
    \/ \E t \in Triangles, backfaceCulling \in BOOLEAN :
           IntersectTriangle(t[1], t[2], t[3], backfaceCulling)
    \/ \E s \in Segments : DistanceSqToSegment(s[1], s[2])
    \/ \E point \in Points : ClosestPointToPoint(point)
    \/ \E point \in Points : DistanceSqToPoint(point)
    \/ \E t \in Distances : Recast(t)
    \/ \E matrix4 \in RayMatrices : ApplyMatrix4(matrix4)

SpecRay == InitRay /\ [][NextRay]_vars

\* the rays of a client as objects: it holds two vectors, builds the rays a
\* and b from them, copies or clones one ray, and then moves a ray
InitAlias ==
    /\ MatrixNew
    /\ ray = NewRay(ZeroVector, ZeroVector)
    /\ statics = NewStatics
    /\ ret = Null
    /\ objs = << >>
    /\ vectors = ClientVectors
    /\ rays = NoRays

NextAlias ==
    \/ \E name \in RayNames, origin \in Supplied, direction \in Supplied :
           ConstructRay(name, origin, direction)
    \/ \E name \in RayNames, origin \in Supplied \ {0}, direction \in Supplied \ {0} :
           SetRay(name, origin, direction)
    \/ \E name \in RayNames, source \in RayNames : CopyRay(name, source)
    \/ \E name \in RayNames, source \in RayNames : CloneRay(name, source)
    \/ \E name \in RayNames, t \in Distances : RecastRay(name, t)

SpecAlias == InitAlias /\ [][NextAlias]_vars

\* sessions of two calls that use the static scratch objects, the second
\* finding what the first left in them
InitHistory ==
    /\ MatrixNew
    /\ ray \in HistoryRays
    /\ statics = NewStatics
    /\ ret = Null
    /\ objs = << >>
    /\ vectors = << >>
    /\ rays = NoRays

NextHistory ==
    \/ \E t \in Distances : Recast(t)
    \/ \E point \in Points : DistanceSqToPoint(point)
    \/ \E s \in Segments : DistanceSqToSegment(s[1], s[2])
    \/ \E t \in Triangles, backfaceCulling \in BOOLEAN :
           IntersectTriangle(t[1], t[2], t[3], backfaceCulling)
    \/ \E position \in Positions, euler \in HistoryEulers, scale \in HistoryScales :
           Compose(position, euler, scale)
    \/ \E position \in Positions, euler \in HistoryEulers, scale \in HistoryScales :
           Recompose(position, euler, scale)

SpecHistory == InitHistory /\ [][NextHistory]_vars

\* the sort alone: the client holds an array and sorts it
InitSort ==
    /\ MatrixNew
    /\ ray = NewRay(ZeroVector, ZeroVector)
    /\ statics = NewStatics
    /\ ret = Null
    /\ objs \in { [arr |-> a] : a \in Arrays }
    /\ vectors = << >>
    /\ rays = NoRays

NextSort == \E cb \in Comparators : MergeSort(cb)

SpecSort == InitSort /\ [][NextSort]_vars

\* the vectors given to unit: of 2, 3 and 4 components, the zero vectors
\* among them
UnitInputs ==
    { Vector2(N(x), N(y)) : x \in {-4, 0, 3}, y \in {-3, 0, 4} }
    \cup { Vector3(N(x), N(y), N(z)) : x \in {0, 1, 2}, y \in {-2, 0, 2}, z \in {-1, 0, 2} }
    \cup { Vector4(N(x), N(y), N(z), N(w)) : x \in {-1, 0, 1}, y \in {0, 1},
                                             z \in {-1, 0, 1}, w \in {0, 1} }

\* the rays that are turned to a point
LookAtRays ==
    { NewRay(Vector3(N(0), N(0), N(0)), Vector3(N(0), N(0), N(1))),
      NewRay(Vector3(N(1), N(2), N(2)), Vector3(N(0), N(1), N(0))),
      NewRay(Vector3(N(2), N(0), N(-1)), Vector3(N(0), N(0), N(0))) }

\* the number of components of the vector
Components(v) == Cardinality(DOMAIN v)

\* v.unit() on the Vector2 the client holds
UnitVector2 ==
    /\ pc = "new"
    /\ Components(objs.v) = 2
    /\ HasSqrt(Add(Mul(objs.v.x, objs.v.x), Mul(objs.v.y, objs.v.y)))
    /\ objs' = [v |-> unitVector2(objs.v)]
    /\ hist' = Append(hist, [name |-> "unit", receiver |-> objs.v])
    /\ pc' = "done"
    /\ UNCHANGED <<matrixVars, ray, statics, ret, vectors, rays>>

\* v.unit() on the Vector3 the client holds
UnitVector3 ==
    /\ pc = "new"
    /\ Components(objs.v) = 3
    /\ HasSqrt(lengthSquared(objs.v))
    /\ objs' = [v |-> unit(objs.v)]
    /\ hist' = Append(hist, [name |-> "unit", receiver |-> objs.v])
    /\ pc' = "done"
    /\ UNCHANGED <<matrixVars, ray, statics, ret, vectors, rays>>

\* v.unit() on the Vector4 the client holds
UnitVector4 ==
    /\ pc = "new"
    /\ Components(objs.v) = 4
    /\ HasSqrt(Add(lengthSquared(objs.v), Mul(objs.v.w, objs.v.w)))
    /\ objs' = [v |-> unitVector4(objs.v)]
    /\ hist' = Append(hist, [name |-> "unit", receiver |-> objs.v])
    /\ pc' = "done"
    /\ UNCHANGED <<matrixVars, ray, statics, ret, vectors, rays>>

\* ray.lookAt(v) with the Vector3 the client holds
RayLookAt ==
    /\ pc = "new"
    /\ Components(objs.v) = 3
    /\ HasSqrt(distanceToSquared(objs.v, ray.origin))
    /\ ray' = rayLookAt(ray, objs.v)
    /\ hist' = Append(hist, [name |-> "lookAt", receiver |-> ray, v |-> objs.v])
    /\ pc' = "done"
    /\ UNCHANGED <<matrixVars, statics, ret, objs, vectors, rays>>

\* the normalizations alone: the client holds a vector and a ray
InitUnit ==
    /\ MatrixNew
    /\ ray \in LookAtRays
    /\ statics = NewStatics
    /\ ret = Null
    /\ objs \in { [v |-> v] : v \in UnitInputs }
    /\ vectors = << >>
    /\ rays = NoRays

NextUnit == UnitVector2 \/ UnitVector3 \/ UnitVector4 \/ RayLookAt

SpecUnit == InitUnit /\ [][NextUnit]_vars

\* ------------------------------------------------------------------ claims

\* the standard 4x4 product a.b of two column-major matrices: entry (r, c)
\* is stored at index 4c + r
MatProduct(a, b) ==
    [k \in 1..16 |->
        LET r == (k - 1) % 4
            c == 4 * ((k - 1) \div 4)
        IN  Add(Add(Add(Mul(At(a, r), At(b, c)), Mul(At(a, 4 + r), At(b, c + 1))),
                    Mul(At(a, 8 + r), At(b, c + 2))), Mul(At(a, 12 + r), At(b, c + 3)))]

\* d times the identity matrix
ScaledIdentity(d) == [k \in 1..16 |-> IF (k - 1) % 5 = 0 THEN d ELSE Zero]

PositiveScale(scale) == Gt(scale.x, Zero) /\ Gt(scale.y, Zero) /\ Gt(scale.z, Zero)

UnitScale == Vector3(One, One, One)

\* the session is new Matrix4().compose(p, e, s).decompose(outP, outE, outS)
ComposedThenDecomposed ==
    /\ Len(hist) = 3
    /\ hist[2].name = "compose"
    /\ hist[3].name = "decompose"

\* C1 (as stated): after compose(p, e, s) with positive s, decompose leaves
\* in outEuler the angles Euler.setFromRotationMatrix extracts from
\* compose(p, e, (1,1,1)), the matrix with the scale divided out.
C1_EulerFromNormalizedBlock ==
    (ComposedThenDecomposed /\ PositiveScale(hist[2].scale)) =>
        outEuler = setFromRotationMatrix(
                       Euler(AngleZero, AngleZero, AngleZero, hist[2].euler.order),
                       compose(setFromEuler(hist[2].euler), hist[2].position, UnitScale))

\* C2: invert() on a matrix whose determinant is exactly 0 leaves all 16
\* entries of the receiver as they were.
C2_SingularInvertUnchanged ==
    (last.name = "invert" /\ Eq(determinant(pre), Zero)) => m = pre

\* C2 witness: invert() was called on a singular matrix with non-zero entries
C2_Witness ==
    /\ last.name = "invert"
    /\ Eq(determinant(pre), Zero)
    /\ \E i \in 1..16 : pre[i] # Zero

\* C3: for M with non-zero determinant, M.clone().invert().multiply(M) is the
\* identity, and the cofactor entries invert computes form the adjugate A
\* with A.M = det(M).I.
C3_InverseLaw ==
    (last.name = "invert" /\ ~Eq(determinant(pre), Zero)) =>
        /\ multiply([this |-> m, other |-> pre], "other") = Identity
        /\ MatProduct(invCofactors(pre), pre) = ScaledIdentity(determinant(pre))

\* C3 witness: invert() was called on an invertible matrix that is not the
\* identity and whose determinant is not 1
C3_Witness ==
    /\ last.name = "invert"
    /\ ~Eq(determinant(pre), Zero)
    /\ ~Eq(determinant(pre), One)
    /\ m # pre

\* the object a name of the last product call stood for when it was made
Operand(ref) == IF ref = "this" THEN pre ELSE last.other

\* C4: multiplyMatrices(a, b), multiply(o) = multiplyMatrices(this, o) and
\* premultiply(o) = multiplyMatrices(o, this) leave in the receiver the
\* standard product of the operands as they were before the call, also when
\* an operand is the receiver itself.
C4_ProductWithAliasing ==
    (last.name \in {"multiplyMatrices", "multiply", "premultiply"}) =>
        m = MatProduct(Operand(last.a), Operand(last.b))

\* C4 witness: a product whose operands include the receiver, which the
\* call changed, and whose two operand orders differ
C4_Witness ==
    /\ last.name \in {"multiply", "premultiply"}
    /\ "this" \in {last.a, last.b}
    /\ m # pre
    /\ MatProduct(pre, last.other) # MatProduct(last.other, pre)

\* C5: new Matrix4().compose(p, e, s).decompose(outP, outE, outS) with the
\* three components of s positive yields outP = p and outS = s.
C5_PositionAndScaleRecovered ==
    (ComposedThenDecomposed /\ PositiveScale(hist[2].scale)) =>
        /\ outPosition = hist[2].position
        /\ outScale = hist[2].scale

\* C5 witness: a matrix composed from a non-zero position, a non-zero
\* rotation and a positive non-uniform scale has been decomposed
C5_Witness ==
    /\ ComposedThenDecomposed
    /\ PositiveScale(hist[2].scale)
    /\ hist[2].scale.x # hist[2].scale.z
    /\ hist[2].position # Vector3(Zero, Zero, Zero)
    /\ hist[2].euler.y # AngleZero

\* two matrices differ in some entry (compared as numbers, so NaN differs
\* from everything)
Differs(a, b) == \E i \in 1..16 : ~Eq(a[i], b[i])

\* the three upper-left columns of te have non-zero length
NonZeroColumns(te) ==
    /\ Gt(lengthSquared(Vector3(At(te, 0), At(te, 1), At(te, 2))), Zero)
    /\ Gt(lengthSquared(Vector3(At(te, 4), At(te, 5), At(te, 6))), Zero)
    /\ Gt(lengthSquared(Vector3(At(te, 8), At(te, 9), At(te, 10))), Zero)

\* the last call was a decompose made right after another decompose
DecomposedTwice ==
    /\ Len(hist) >= 3
    /\ last.name = "decompose"
    /\ hist[Len(hist) - 1].name = "decompose"

\* after m.decompose(...), entries 0-2, 4-6 and 8-10 of m are their previous
\* values divided by sx, sy and sz, entries 3, 7, 11 and 12-15 are unchanged,
\* and m differs from its previous value when some scale is not 1
DecomposeDividesColumns ==
    /\ \A i \in {0, 1, 2} : At(m, i) = Div(At(pre, i), outScale.x)
    /\ \A i \in {4, 5, 6} : At(m, i) = Div(At(pre, i), outScale.y)
    /\ \A i \in {8, 9, 10} : At(m, i) = Div(At(pre, i), outScale.z)
    /\ \A i \in {3, 7, 11, 12, 13, 14, 15} : At(m, i) = At(pre, i)
    /\ (\E c \in {outScale.x, outScale.y, outScale.z} : ~Eq(c, One)) => Differs(m, pre)

UnitScales == { Vector3(One, One, One), Vector3(Neg(One), One, One) }

\* C6 (as stated): decompose divides the columns of its receiver by the
\* extracted scales, leaves the other entries, changes m when a scale is not
\* 1, and every second decompose on the same matrix reports scale (+-1, 1, 1).
C6_SecondDecomposeUnitScale ==
    /\ last.name = "decompose" => DecomposeDividesColumns
    /\ DecomposedTwice => outScale \in UnitScales

\* C6 (amended): as above, the second decompose reporting scale (+-1, 1, 1)
\* when the three columns of the matrix have non-zero length.
C6_DecomposeMutatesReceiver ==
    /\ last.name = "decompose" => DecomposeDividesColumns
    /\ (DecomposedTwice /\ NonZeroColumns(pre)) => outScale \in UnitScales

\* C6 witness: a matrix composed with a non-uniform scale was decomposed and
\* then decomposed again
C6_Witness ==
    /\ Len(hist) = 4
    /\ hist[2].name = "compose"
    /\ DecomposedTwice
    /\ hist[2].scale = Vector3(N(-2), N(1), N(-1))
    /\ hist[2].euler.x # AngleZero
    /\ NonZeroColumns(pre)
    /\ outScale \in UnitScales

\* the angle of e that the conversion of its order reads back through asin
MiddleAngle(e) ==
    CASE e.order \in {XYZ, ZYX} -> e.y
      [] e.order \in {YXZ, ZXY} -> e.x
      [] e.order \in {YZX, XZY} -> e.z

\* the middle angle lies strictly between -pi/2 and pi/2: in its principal
\* range and not at a pole
NonPole(e) == MiddleAngle(e)[1] = "ray" /\ MiddleAngle(e)[2] > 0

\* the session is compose(0, e, (1,1,1)) followed by
\* new Euler(0, 0, 0, e.order).setFromRotationMatrix(m)
ComposedThenConverted ==
    /\ Len(hist) = 3
    /\ hist[2].name = "compose"
    /\ hist[2].position = Vector3(Zero, Zero, Zero)
    /\ hist[2].scale = UnitScale
    /\ hist[3].name = "setFromRotationMatrix"
    /\ hist[3].order = hist[2].euler.order

\* C7: for each of the 6 orders and every Euler e whose middle angle is not
\* at a pole and whose angles lie in the principal ranges, composing e with
\* zero position and unit scale and applying Euler.setFromRotationMatrix with
\* the same order reproduces e.x, e.y and e.z.
C7_RotationRoundTrip ==
    (ComposedThenConverted /\ NonPole(hist[2].euler)) =>
        /\ outEuler.x = hist[2].euler.x
        /\ outEuler.y = hist[2].euler.y
        /\ outEuler.z = hist[2].euler.z

\* C7 witness: a round trip in order XZY of three non-zero angles, two of
\* them outside [-pi/2, pi/2] or negative
C7_Witness ==
    /\ ComposedThenConverted
    /\ NonPole(hist[2].euler)
    /\ hist[2].euler.order = XZY
    /\ hist[2].euler.x = FromHalf(3, 4)
    /\ hist[2].euler.y = FromHalf(4, -3)
    /\ hist[2].euler.z = FromHalf(4, 3)
    /\ outEuler.x = FromHalf(3, 4)

\* for each order: the element read through asin, the two remaining angles a
\* and b, their ordinary atan2 values and their values at a pole
Branches(o, te) ==
    LET m11 == At(te, 0)  m12 == At(te, 4)  m13 == At(te, 8)
        m21 == At(te, 1)  m22 == At(te, 5)  m23 == At(te, 9)
        m31 == At(te, 2)  m32 == At(te, 6)  m33 == At(te, 10)
    IN  CASE o = XYZ -> [el |-> m13, a |-> "x", b |-> "z",
                         ordA |-> Atan2(Neg(m23), m33), ordB |-> Atan2(Neg(m12), m11),
                         poleA |-> Atan2(m32, m22), poleB |-> AngleZero]
          [] o = YXZ -> [el |-> m23, a |-> "y", b |-> "z",
                         ordA |-> Atan2(m13, m33), ordB |-> Atan2(m21, m22),
                         poleA |-> Atan2(Neg(m31), m11), poleB |-> AngleZero]
          [] o = ZXY -> [el |-> m32, a |-> "z", b |-> "y",
                         ordA |-> Atan2(Neg(m12), m22), ordB |-> Atan2(Neg(m31), m33),
                         poleA |-> Atan2(m21, m11), poleB |-> AngleZero]
          [] o = XZY -> [el |-> m12, a |-> "x", b |-> "y",
                         ordA |-> Atan2(m32, m22), ordB |-> Atan2(m13, m11),
                         poleA |-> Atan2(Neg(m23), m33), poleB |-> AngleZero]
          [] o = ZYX -> [el |-> m31, a |-> "z", b |-> "x",
                         ordA |-> Atan2(m21, m11), ordB |-> Atan2(m32, m33),
                         poleA |-> Atan2(Neg(m12), m22), poleB |-> AngleZero]
          [] o = YZX -> [el |-> m21, a |-> "y", b |-> "x",
                         ordA |-> Atan2(Neg(m31), m11), ordB |-> Atan2(Neg(m23), m22),
                         poleA |-> Atan2(m13, m33), poleB |-> AngleZero]

\* C8: in Euler.setFromRotationMatrix, for each of the 6 orders, when the
\* absolute value of the element fed to asin is >= 0.9999999 one of the two
\* remaining angles is 0 (z for XYZ and YXZ, y for ZXY and XZY, x for ZYX and
\* YZX) and the other comes from the alternative atan2 pair (x = atan2(m32,
\* m22) for XYZ); when it is < 0.9999999 both come from the ordinary atan2
\* pairs.  The order field is not changed.
C8_GimbalLockBranches ==
    last.name = "setFromRotationMatrix" =>
        LET t == Branches(last.order, last.matrix) IN
        /\ Le(PoleLimit, NumAbs(t.el)) =>
               outEuler[t.a] = t.poleA /\ outEuler[t.b] = t.poleB
        /\ Lt(NumAbs(t.el), PoleLimit) =>
               outEuler[t.a] = t.ordA /\ outEuler[t.b] = t.ordB
        /\ outEuler.order = last.order

\* C8 witness: order XYZ with m13 exactly 0.9999999 gave z = 0 and the
\* non-zero x = atan2(m32, m22)
C8_Witness ==
    /\ last.name = "setFromRotationMatrix"
    /\ last.order = XYZ
    /\ At(last.matrix, 8) = PoleLimit
    /\ outEuler.z = AngleZero
    /\ outEuler.x = Atan2(At(last.matrix, 6), At(last.matrix, 5))
    /\ outEuler.x # AngleZero
    /\ outEuler.x # Atan2(Neg(At(last.matrix, 9)), At(last.matrix, 10))

\* the arguments of the last ortho or frustum call
Left == last.lr[1]
Right == last.lr[2]
Bottom == last.bt[1]
Top == last.bt[2]
Near == last.nf[1]
Far == last.nf[2]

\* near <= 0 or far <= 0
BehindEye == Le(Near, Zero) \/ Le(Far, Zero)

\* the bounds of the last ortho or frustum call are collapsed
BoxCollapsed == Eq(Left, Right) \/ Eq(Bottom, Top) \/ Eq(Near, Far)

\* the arguments of the last perspective call are collapsed
ViewCollapsed == Eq(Near, Far) \/ Eq(last.aspect, Zero) \/ Eq(Sin(last.fovRad), Zero)

\* a receiver no entry of which can be taken for a written one
Unwritten == [i \in 1..16 |-> NaN]

\* the last call wrote all 16 entries: the result is the one the call gives
\* on any other receiver, and none of the receiver's entries is left in it
Overwritten ==
    CASE last.name = "ortho" ->
             m = ortho(Unwritten, Left, Right, Bottom, Top, Near, Far)
      [] last.name = "frustum" ->
             m = frustum(Unwritten, Left, Right, Bottom, Top, Near, Far)
      [] last.name = "perspective" ->
             m = perspective(Unwritten, last.fovRad, last.aspect, Near, Far)

\* C9 (as stated): each of ortho, frustum and perspective leaves all 16
\* entries of the receiver unchanged whenever near <= 0 or far <= 0, the
\* other arguments being non-degenerate.
C9_AllThreeGuardNearFar ==
    /\ (last.name \in {"ortho", "frustum"} /\ BehindEye /\ ~BoxCollapsed) => m = pre
    /\ (last.name = "perspective" /\ BehindEye /\ ~ViewCollapsed) => m = pre

\* C9 (amended): frustum and perspective leave all 16 entries of the receiver
\* unchanged whenever near <= 0 or far <= 0; ortho has no such guard and
\* overwrites all 16 entries when its bounds are not collapsed.
C9_FrustumPerspectiveGuardNearFar ==
    /\ (last.name \in {"frustum", "perspective"} /\ BehindEye) => m = pre
    /\ (last.name = "ortho" /\ BehindEye /\ ~BoxCollapsed) =>
           Overwritten /\ \A i \in 1..16 : IsFinite(m[i])

\* C9 witness: frustum with near <= 0 and bounds not collapsed left a
\* receiver that was not the identity as it was
C9_Witness ==
    /\ last.name = "frustum"
    /\ Le(Near, Zero)
    /\ Gt(Far, Zero)
    /\ ~BoxCollapsed
    /\ pre # Identity
    /\ m = pre

\* C10 (as stated): ortho and frustum leave the receiver unchanged when
\* left === right, bottom === top or near === far, perspective when near ===
\* far, aspect === 0 or sin(fov/2) === 0; in every other case all 16 entries
\* are overwritten.
C10_OverwrittenInEveryOtherCase ==
    /\ (last.name \in {"ortho", "frustum"} /\ BoxCollapsed) => m = pre
    /\ (last.name = "perspective" /\ ViewCollapsed) => m = pre
    /\ (last.name \in {"ortho", "frustum"} /\ ~BoxCollapsed) =>
           Overwritten /\ \A i \in 1..16 : ~IsNaN(m[i])
    /\ (last.name = "perspective" /\ ~ViewCollapsed) =>
           Overwritten /\ \A i \in 1..16 : ~IsNaN(m[i])

\* C10 (amended): the same no-ops on collapsed bounds; in every other case
\* with, for frustum and perspective, near > 0 and far > 0, all 16 entries
\* are overwritten.
C10_CollapsedBoundsNoOp ==
    /\ (last.name \in {"ortho", "frustum"} /\ BoxCollapsed) => m = pre
    /\ (last.name = "perspective" /\ ViewCollapsed) => m = pre
    /\ (last.name = "ortho" /\ ~BoxCollapsed) =>
           Overwritten /\ \A i \in 1..16 : ~IsNaN(m[i])
    /\ (last.name = "frustum" /\ ~BoxCollapsed /\ ~BehindEye) =>
           Overwritten /\ \A i \in 1..16 : ~IsNaN(m[i])
    /\ (last.name = "perspective" /\ ~ViewCollapsed /\ ~BehindEye) =>
           Overwritten /\ \A i \in 1..16 : ~IsNaN(m[i])

\* C10 witness: ortho with bottom === top alone collapsed left a receiver
\* that was not the identity as it was
C10_Witness ==
    /\ last.name = "ortho"
    /\ Eq(Bottom, Top)
    /\ ~Eq(Left, Right)
    /\ ~Eq(Near, Far)
    /\ pre # Identity
    /\ m = pre

\* C11: Matrix4.rotate(angle, axis) with axis = (0, 0, 0) leaves all 16
\* entries of the receiver unchanged, for every angle.
C11_ZeroAxisRotateNoOp ==
    (last.name = "rotate" /\ last.axis = Vector3(Zero, Zero, Zero)) => m = pre

\* C11 witness: rotate by a non-zero angle about the zero axis was called on
\* a matrix that the same rotation about the z axis would have changed
C11_Witness ==
    /\ last.name = "rotate"
    /\ last.axis = Vector3(Zero, Zero, Zero)
    /\ last.angle # AngleZero
    /\ m = pre
    /\ rotate(pre, last.angle, Vector3(Zero, Zero, One)) # pre

\* ---- C12

\* the parameters t for which origin + direction * t lies between lo and hi
\* on one axis, as <<first, last>>; <<+Infinity, -Infinity>> when there are none
AxisInterval(d, lo, hi, o) ==
    IF d = Zero
    THEN IF Le(lo, o) /\ Le(o, hi) THEN <<Neg(PosInf), PosInf>> ELSE <<PosInf, Neg(PosInf)>>
    ELSE IF Gt(d, Zero)
         THEN <<Div(Sub(lo, o), d), Div(Sub(hi, o), d)>>
         ELSE <<Div(Sub(hi, o), d), Div(Sub(lo, o), d)>>

\* the three intervals of a ray and a box
AxisIntervals(r, box) ==
    <<AxisInterval(r.direction.x, box.min.x, box.max.x, r.origin.x),
      AxisInterval(r.direction.y, box.min.y, box.max.y, r.origin.y),
      AxisInterval(r.direction.z, box.min.z, box.max.z, r.origin.z)>>

\* the parameter at which the line of the ray enters the box, and leaves it
Entry(r, box) ==
    Max(Max(AxisIntervals(r, box)[1][1], AxisIntervals(r, box)[2][1]),
        AxisIntervals(r, box)[3][1])

Exit(r, box) ==
    Min(Min(AxisIntervals(r, box)[1][2], AxisIntervals(r, box)[2][2]),
        AxisIntervals(r, box)[3][2])

\* the ray (t >= 0) meets the box
Meets(r, box) == Le(Entry(r, box), Exit(r, box)) /\ Ge(Exit(r, box), Zero)

\* the point lies on the surface of the box
OnBox(p, box) ==
    /\ Le(box.min.x, p.x) /\ Le(p.x, box.max.x)
    /\ Le(box.min.y, p.y) /\ Le(p.y, box.max.y)
    /\ Le(box.min.z, p.z) /\ Le(p.z, box.max.z)
    /\ \/ p.x = box.min.x \/ p.x = box.max.x
       \/ p.y = box.min.y \/ p.y = box.max.y
       \/ p.z = box.min.z \/ p.z = box.max.z

\* the nearest crossing of the boundary: the entry when the origin is outside
\* the box, the exit when it is inside
NearestCrossing(r, box) ==
    at(r, IF Ge(Entry(r, box), Zero) THEN Entry(r, box) ELSE Exit(r, box), ZeroVector)

\* C12: intersectBox returns null when the ray (t >= 0) never meets the box,
\* and otherwise the nearest crossing of the boundary, origin + direction * t
\* with t the entry parameter when the origin is outside the box and the exit
\* parameter when it is inside; the returned point lies on the box. The code
\* breaks this when a direction component is 0 and the origin lies on a face
\* plane of that axis.
C12_NearestCrossingOrNone ==
    last.name = "intersectBox" =>
        IF Meets(last.receiver, last.box)
        THEN /\ ret = Hit(NearestCrossing(last.receiver, last.box))
             /\ OnBox(ret.point, last.box)
        ELSE ret = Null

\* ---- C13

AxisNames == {"x", "y", "z"}

\* the axes on which the direction component is 0 and the origin lies exactly
\* on the min or the max plane of the box, so that intersectBox computes
\* 0 * Infinity
DegenerateAxes(r, box) ==
    { axis \in AxisNames :
        /\ r.direction[axis] = Zero
        /\ r.origin[axis] = box.min[axis] \/ r.origin[axis] = box.max[axis] }

\* the ray with its origin moved strictly inside the slab on those axes
MovedInside(r, box) ==
    NewRay([axis \in AxisNames |->
               IF axis \in DegenerateAxes(r, box)
               THEN Div(Add(box.min[axis], box.max[axis]), N(2))
               ELSE r.origin[axis]],
           r.direction)

HasNaN(v) == IsNaN(v.x) \/ IsNaN(v.y) \/ IsNaN(v.z)

\* the call computes 0 * Infinity on some axis, and the slab of each such axis
\* has an inside
ComputesNaN(r, box) ==
    /\ DegenerateAxes(r, box) # {}
    /\ \A axis \in DegenerateAxes(r, box) : Lt(box.min[axis], box.max[axis])

\* C13: when a direction component is 0 and the origin lies exactly on the
\* corresponding min or max plane of the box, intersectBox returns null or a
\* point with no NaN coordinate, and it decides hit or miss and chooses the
\* point as it does for the origin moved inside that slab: the same
\* coordinates on the other axes, the origin's coordinate on that axis. The
\* code does not: a NaN bound is never replaced, so the exit point or a NaN
\* point is returned.
C13_ToleratesNaN ==
    (last.name = "intersectBox" /\ ComputesNaN(last.receiver, last.box)) =>
        /\ ret.hit = intersectBox(MovedInside(last.receiver, last.box), last.box).hit
        /\ ret.hit =>
               /\ ~HasNaN(ret.point)
               /\ \A axis \in AxisNames :
                      ret.point[axis] =
                          IF axis \in DegenerateAxes(last.receiver, last.box)
                          THEN last.receiver.origin[axis]
                          ELSE intersectBox(MovedInside(last.receiver, last.box),
                                            last.box).point[axis]

\* ---- C14, C15

\* the difference and the cross product of two vectors, on new vectors
Minus(v, w) == subtract(cloneVector(v), w)

Times(v, w) == crossVectors(ZeroVector, v, w)

\* normal = (b - a) x (c - a)
TriangleNormal(a, b, c) == Times(Minus(b, a), Minus(c, a))

\* direction . normal of the last call, an intersectTriangle
DirectionDotNormal == dot(last.receiver.direction, TriangleNormal(last.a, last.b, last.c))

\* the parameter t at which the line of the ray meets the plane of the
\* triangle (when direction . normal is not 0), and the point there
PlaneParameter(r, a, b, c) ==
    Div(Neg(dot(Minus(r.origin, a), TriangleNormal(a, b, c))),
        dot(r.direction, TriangleNormal(a, b, c)))

PlanePoint(r, a, b, c) == at(r, PlaneParameter(r, a, b, c), ZeroVector)

\* the barycentric coordinates b1, b2 of a point p of the plane:
\* p - a = b1 * (b - a) + b2 * (c - a)
Barycentric1(p, a, b, c) ==
    Div(dot(Times(Minus(p, a), Minus(c, a)), TriangleNormal(a, b, c)),
        dot(TriangleNormal(a, b, c), TriangleNormal(a, b, c)))

Barycentric2(p, a, b, c) ==
    Div(dot(Times(Minus(b, a), Minus(p, a)), TriangleNormal(a, b, c)),
        dot(TriangleNormal(a, b, c), TriangleNormal(a, b, c)))

InClosedTriangle(p, a, b, c) ==
    /\ Ge(Barycentric1(p, a, b, c), Zero)
    /\ Ge(Barycentric2(p, a, b, c), Zero)
    /\ Le(Add(Barycentric1(p, a, b, c), Barycentric2(p, a, b, c)), One)

\* the ray (t >= 0) of the last call crosses the closed triangle
Crosses ==
    /\ Ge(PlaneParameter(last.receiver, last.a, last.b, last.c), Zero)
    /\ InClosedTriangle(PlanePoint(last.receiver, last.a, last.b, last.c),
                        last.a, last.b, last.c)

NotCulled ==
    /\ DirectionDotNormal # Zero
    /\ ~(last.backfaceCulling /\ Gt(DirectionDotNormal, Zero))

\* C15: when direction . normal is not 0 and culling does not apply,
\* intersectTriangle returns a point if and only if there is t >= 0 with
\* origin + t * direction in the closed triangle (b1 >= 0, b2 >= 0,
\* b1 + b2 <= 1), the point returned is that point, and a, b, c, ray.origin
\* and ray.direction are left as they were.
C15_ExactHitTest ==
    (last.name = "intersectTriangle" /\ NotCulled) =>
        /\ ret.hit <=> Crosses
        /\ ret.hit => ret.point = PlanePoint(last.receiver, last.a, last.b, last.c)
        /\ objs.a = last.a /\ objs.b = last.b /\ objs.c = last.c
        /\ ray = last.receiver

\* a hit on an edge of the triangle, by a ray seen from the back with culling
\* off
C15_Witness ==
    /\ last.name = "intersectTriangle"
    /\ ~last.backfaceCulling
    /\ Gt(DirectionDotNormal, Zero)
    /\ ret.hit
    /\ Add(Barycentric1(ret.point, last.a, last.b, last.c),
           Barycentric2(ret.point, last.a, last.b, last.c)) = One

\* ---- C16, C17

\* the last call is a distanceSqToSegment on a ray with a direction of length 1
SegmentCallOnUnitRay ==
    /\ last.name = "distanceSqToSegment"
    /\ lengthSquared(last.receiver.direction) = One

\* half the length of the segment of the last call
SegExtent == Mul(distanceTo(last.v0, last.v1), Q(1, 2))

\* <<s0, s1, sqrDist>> at the end of the last call, from the scratch vectors
\* it left
FinalParameters ==
    closestParameters(Neg(dot(last.receiver.direction, statics.segDir)),
                      dot(statics.diff, last.receiver.direction),
                      Neg(dot(statics.diff, statics.segDir)),
                      lengthSquared(statics.diff), SegExtent)

\* p is origin + t * direction for some t >= 0
OnRay(p, r) ==
    /\ Ge(dot(Minus(p, r.origin), r.direction), Zero)
    /\ p = at(r, Div(dot(Minus(p, r.origin), r.direction), lengthSquared(r.direction)),
              ZeroVector)

\* v0 + u * (v1 - v0)
SegmentPoint(v0, v1, u) == addVector(multiplyScalar(Minus(v1, v0), u), v0)

\* the u for which v0 + u * (v1 - v0) is the foot of p on the line of the
\* segment
SegmentParameter(v0, v1, p) ==
    IF v0 = v1 THEN Zero
    ELSE Div(dot(Minus(p, v0), Minus(v1, v0)), lengthSquared(Minus(v1, v0)))

\* p is a point of the closed segment [v0, v1]
OnSegment(p, v0, v1) ==
    /\ Ge(SegmentParameter(v0, v1, p), Zero)
    /\ Le(SegmentParameter(v0, v1, p), One)
    /\ p = SegmentPoint(v0, v1, SegmentParameter(v0, v1, p))

\* C16: for a ray direction of length 1 and any segment, distanceSqToSegment
\* ends with s0 >= 0 and -segExtent <= s1 <= segExtent in each of its
\* branches, so the point written to pointOnRay is on the ray and the point
\* written to pointOnSegment is on the closed segment [v0, v1].
C16_ParametersInRange ==
    SegmentCallOnUnitRay =>
        /\ Ge(FinalParameters[1], Zero)
        /\ Le(Neg(SegExtent), FinalParameters[2])
        /\ Le(FinalParameters[2], SegExtent)
        /\ OnRay(objs.pointOnRay, last.receiver)
        /\ OnSegment(objs.pointOnSegment, last.v0, last.v1)

\* a call that ends at the origin of the ray and at an end of the segment:
\* both parameters were clamped
C16_Witness ==
    /\ SegmentCallOnUnitRay
    /\ last.v0 # last.v1
    /\ FinalParameters[1] = Zero
    /\ FinalParameters[2] = Neg(SegExtent)
    /\ objs.pointOnRay = last.receiver.origin
    /\ objs.pointOnSegment = last.v0
    /\ dot(last.receiver.direction, Minus(last.v1, last.v0)) # Zero

\* the squared distance from p to the nearest point of the ray (t >= 0)
RayToPoint(r, p) ==
    distanceToSquared(
        at(r, Max(Zero, Div(dot(Minus(p, r.origin), r.direction),
                            lengthSquared(r.direction))), ZeroVector), p)

\* the squared distance from p to the nearest point of the segment
SegmentToPoint(v0, v1, p) ==
    distanceToSquared(
        SegmentPoint(v0, v1, Min(Max(Zero, SegmentParameter(v0, v1, p)), One)), p)

\* (d.e)^2 - (d.d)(e.e) for the direction d of the ray and e = v1 - v0: 0 when
\* the ray and the segment are parallel or the segment is a point
LinesDet(r, v0, v1) ==
    Sub(Mul(dot(r.direction, Minus(v1, v0)), dot(r.direction, Minus(v1, v0))),
        Mul(lengthSquared(r.direction), lengthSquared(Minus(v1, v0))))

\* the parameters t and u at which the lines of the ray and of the segment
\* are nearest to each other (LinesDet not 0)
LinesT(r, v0, v1) ==
    Div(Sub(Mul(dot(Minus(r.origin, v0), r.direction), lengthSquared(Minus(v1, v0))),
            Mul(dot(r.direction, Minus(v1, v0)), dot(Minus(r.origin, v0), Minus(v1, v0)))),
        LinesDet(r, v0, v1))

LinesU(r, v0, v1) ==
    Div(Sub(Mul(dot(r.direction, Minus(v1, v0)), dot(Minus(r.origin, v0), r.direction)),
            Mul(lengthSquared(r.direction), dot(Minus(r.origin, v0), Minus(v1, v0)))),
        LinesDet(r, v0, v1))

\* the nearest points of the two lines lie on the ray and on the segment
NearestInside(r, v0, v1) ==
    /\ LinesDet(r, v0, v1) # Zero
    /\ Ge(LinesT(r, v0, v1), Zero)
    /\ Ge(LinesU(r, v0, v1), Zero)
    /\ Le(LinesU(r, v0, v1), One)

\* the squared distances that can be the least one between the ray and the
\* segment: between the nearest points of the two lines when these lie on the
\* ray and on the segment, and from the origin and from each end of the
\* segment to the other figure; the squared distance is a convex function of
\* (t, u), so its minimum over t >= 0, 0 <= u <= 1 is one of these
Candidates(r, v0, v1) ==
    { RayToPoint(r, v0), RayToPoint(r, v1), SegmentToPoint(v0, v1, r.origin) }
    \cup IF NearestInside(r, v0, v1)
         THEN { distanceToSquared(at(r, LinesT(r, v0, v1), ZeroVector),
                                  SegmentPoint(v0, v1, LinesU(r, v0, v1))) }
         ELSE {}

\* C17: for a ray direction of length 1 and any segment, the number returned
\* by distanceSqToSegment is the squared distance between the points written
\* to pointOnRay and pointOnSegment, no point of the ray (t >= 0) and point
\* of the segment are closer, and for v0 = v1 it is distanceSqToPoint(v0).
C17_TrueMinimum ==
    SegmentCallOnUnitRay =>
        /\ ret = distanceToSquared(objs.pointOnRay, objs.pointOnSegment)
        /\ \A d \in Candidates(last.receiver, last.v0, last.v1) : Le(ret, d)
        /\ ret \in Candidates(last.receiver, last.v0, last.v1)
        /\ last.v0 = last.v1 =>
               ret = distanceSqToPoint(last.receiver, last.v0, statics).ret

\* a call where the nearest point of the ray is ahead of the origin, the one
\* of the segment is an end of it, and the two are apart
C17_Witness ==
    /\ SegmentCallOnUnitRay
    /\ last.v0 # last.v1
    /\ ~NearestInside(last.receiver, last.v0, last.v1)
    /\ LinesDet(last.receiver, last.v0, last.v1) # Zero
    /\ Gt(FinalParameters[1], Zero)
    /\ objs.pointOnSegment = last.v1
    /\ Gt(ret, Zero)

\* ---- C18

\* (p - origin) . direction
DirectionDistance(r, p) == dot(Minus(p, r.origin), r.direction)

\* C18: closestPointToPoint(p) returns origin when (p - origin) . direction
\* < 0 and origin + direction * ((p - origin) . direction) otherwise, and
\* leaves p and the ray as they were; distanceSqToPoint(p) is the squared
\* distance from p to closestPointToPoint(p).
C18_BehindOriginClamp ==
    /\ last.name = "closestPointToPoint" =>
           /\ ret = IF Lt(DirectionDistance(last.receiver, last.point), Zero)
                    THEN last.receiver.origin
                    ELSE at(last.receiver, DirectionDistance(last.receiver, last.point),
                            ZeroVector)
           /\ objs.point = last.point
           /\ ray = last.receiver
    /\ last.name = "distanceSqToPoint" =>
           ret = distanceToSquared(last.point,
                                   closestPointToPoint(last.receiver, last.point).ret)

\* a distanceSqToPoint for a point behind the origin, off the origin
C18_Witness ==
    /\ last.name = "distanceSqToPoint"
    /\ Lt(DirectionDistance(last.receiver, last.point), Zero)
    /\ ret = distanceToSquared(last.point, last.receiver.origin)
    /\ Gt(ret, Zero)

\* ---- C19

\* the call before the last one
previous == hist[Len(hist) - 1]

\* the values of the two vectors of a ray in a heap
RayValues(vs, r) == NewRay(vs[r.origin], vs[r.direction])

\* C19 as claimed: after a.copy(b) with a and b distinct rays, and after
\* a = b.clone(), a.origin and b.origin are different vector objects and so
\* are a.direction and b.direction, whatever constructor and set calls came
\* before. Rays built or set with a common vector refute it: copy writes into
\* the vectors the receiver already has.
C19_CopyCloneNeverAlias ==
    last.name \in {"copy", "clone"} =>
        /\ rays[last.this].origin # rays[last.source].origin
        /\ rays[last.this].direction # rays[last.source].direction

\* C19 amended: a = b.clone() gives a two new vector objects with the values
\* of b's, so a later recast of b does not change a; a.copy(b) changes no
\* reference of a or b and creates no object, so a.origin and b.origin (and
\* the directions) are different objects after it exactly when they were
\* before it, and it leaves a.origin (when a.direction is another object)
\* with the value b.origin had; the constructor and set store the vectors
\* supplied by reference.
C19_CloneFreshCopyKeepsReferences ==
    /\ last.name = "clone" =>
           /\ rays[last.this].origin > Len(last.vectors)
           /\ rays[last.this].direction > Len(last.vectors)
           /\ rays[last.this].origin # rays[last.this].direction
           /\ RayValues(vectors, rays[last.this]) = RayValues(last.vectors, rays[last.source])
           /\ SubSeq(vectors, 1, Len(last.vectors)) = last.vectors
           /\ rays[last.source] = last.rays[last.source]
    /\ last.name = "copy" =>
           /\ rays = last.rays
           /\ Len(vectors) = Len(last.vectors)
           /\ rays[last.this].origin # rays[last.this].direction =>
                  vectors[rays[last.this].origin] = last.vectors[rays[last.source].origin]
    /\ last.name \in {"construct", "set"} =>
           /\ last.origin # 0 => rays[last.this].origin = last.origin
           /\ last.direction # 0 => rays[last.this].direction = last.direction
           /\ SubSeq(vectors, 1, Len(last.vectors)) = last.vectors
    /\ (last.name = "recast" /\ previous.name = "clone" /\ previous.source = last.this) =>
           RayValues(vectors, rays[previous.this]) = RayValues(last.vectors, rays[previous.this])

\* b is moved after a = b.clone() of a ray b built on the client's vectors:
\* b.origin changes and a does not
C19_Witness ==
    /\ last.name = "recast"
    /\ previous.name = "clone"
    /\ previous.source = last.this
    /\ rays[last.this].origin <= Len(ClientVectors)
    /\ vectors[rays[last.this].origin] # last.vectors[rays[last.this].origin]
    /\ RayValues(vectors, rays[previous.this]) = RayValues(last.vectors, rays[previous.this])

\* ---- C20

\* contents the static scratch vectors may have when a call starts: as the
\* class creates them, and left by earlier calls
ScratchStates ==
    { NewStatics, [ vector    |-> IntVector(7, -5, 3), segCenter |-> IntVector(1, 1, 1),
                    segDir    |-> IntVector(0, 2, 0),  diff      |-> IntVector(-4, 0, 9),
                    edge1     |-> IntVector(3, 3, -3), edge2     |-> IntVector(0, 0, 6),
                    normal    |-> IntVector(-1, 8, 2) ] }

\* C20: what a call to recast, distanceSqToPoint, distanceSqToSegment,
\* intersectTriangle or compose returns and writes to the objects of the
\* caller is a function of its receiver and arguments only: it is what the
\* call gives with any other contents of Ray._vector, _segCenter, _segDir,
\* _diff, _edge1, _edge2, _normal and Matrix4._quat, whatever calls came
\* before.
C20_HistoryIndependent ==
    /\ last.name = "recast" =>
           \A st \in ScratchStates : ray = recast(last.receiver, last.t, st).ray
    /\ last.name = "distanceSqToPoint" =>
           \A st \in ScratchStates :
               ret = distanceSqToPoint(last.receiver, last.point, st).ret
    /\ last.name = "distanceSqToSegment" =>
           \A st \in ScratchStates :
               /\ ret = distanceSqToSegment(last.receiver, last.v0, last.v1,
                                            ZeroVector, ZeroVector, st).ret
               /\ objs.pointOnRay =
                      distanceSqToSegment(last.receiver, last.v0, last.v1,
                                          ZeroVector, ZeroVector, st).pointOnRay
               /\ objs.pointOnSegment =
                      distanceSqToSegment(last.receiver, last.v0, last.v1,
                                          ZeroVector, ZeroVector, st).pointOnSegment
    /\ last.name = "intersectTriangle" =>
           \A st \in ScratchStates :
               ret = intersectTriangle(last.receiver, last.a, last.b, last.c,
                                       last.backfaceCulling, st).ret
    /\ last.name = "compose" =>
           \A q \in {Quaternion(Zero, Zero, Zero, One), Quaternion(One, Zero, Zero, Zero)} :
               m = compose(setQuaternionFromEuler(q, last.euler), last.position, last.scale)

\* a recast that starts with Ray._vector as a distanceSqToPoint left it, not
\* zero, and moves the origin
C20_Witness ==
    /\ Len(hist) = 3
    /\ last.name = "recast"
    /\ previous.name = "distanceSqToPoint"
    /\ distanceSqToPoint(previous.receiver, previous.point, NewStatics).statics.vector
           # ZeroVector
    /\ ray # last.receiver
    /\ ray = recast(last.receiver, last.t, NewStatics).ray

\* ---- C21

\* the matrix is a pure translation
IsTranslation(e) ==
    /\ \A i \in 0..11 : At(e, i) = IF i \in {0, 5, 10} THEN One ELSE Zero
    /\ At(e, 15) = One

\* row i (0..3) of the matrix times the point (v, 1)
RowTimesPoint(e, i, v) ==
    Add(Add(Add(Mul(At(e, i), v.x), Mul(At(e, i + 4), v.y)), Mul(At(e, i + 8), v.z)),
        At(e, i + 12))

\* C21: applyMatrix4 transforms the origin as a point, with the translation
\* and the division by the resulting w, and the direction by the upper-left
\* 3x3 only, then normalized; for a pure translation the origin is shifted by
\* the translation and a direction of length 1 is unchanged; the call
\* returns the receiver and leaves the matrix as it was.
C21_PointAndDirection ==
    last.name = "applyMatrix4" =>
        /\ ret = ray
        /\ objs.matrix4 = last.matrix4
        /\ RowTimesPoint(last.matrix4, 3, last.receiver.origin) # Zero =>
               /\ Mul(ray.origin.x, RowTimesPoint(last.matrix4, 3, last.receiver.origin))
                      = RowTimesPoint(last.matrix4, 0, last.receiver.origin)
               /\ Mul(ray.origin.y, RowTimesPoint(last.matrix4, 3, last.receiver.origin))
                      = RowTimesPoint(last.matrix4, 1, last.receiver.origin)
               /\ Mul(ray.origin.z, RowTimesPoint(last.matrix4, 3, last.receiver.origin))
                      = RowTimesPoint(last.matrix4, 2, last.receiver.origin)
        /\ linearPart(last.receiver.direction, last.matrix4) # ZeroVector =>
               /\ lengthSquared(ray.direction) = One
               /\ Times(ray.direction, linearPart(last.receiver.direction, last.matrix4))
                      = ZeroVector
               /\ Gt(dot(ray.direction, linearPart(last.receiver.direction, last.matrix4)),
                     Zero)
        /\ IsTranslation(last.matrix4) =>
               /\ ray.origin = addVector(cloneVector(last.receiver.origin),
                                         Vector3(At(last.matrix4, 12), At(last.matrix4, 13),
                                                 At(last.matrix4, 14)))
               /\ lengthSquared(last.receiver.direction) = One =>
                      ray.direction = last.receiver.direction

\* a unit direction kept and an origin moved by a translation that is not 0
C21_Witness ==
    /\ last.name = "applyMatrix4"
    /\ IsTranslation(last.matrix4)
    /\ At(last.matrix4, 12) # Zero
    /\ lengthSquared(last.receiver.direction) = One
    /\ ray.direction = last.receiver.direction
    /\ ray.origin # last.receiver.origin

\* ---- C22

\* C22: mergeSort returns for every array, the empty one and those of one
\* element included, and leaves arr a permutation of the elements given,
\* with cb(arr[i], arr[i + 1]) <= 0 for every adjacent pair; elements that
\* compare equal keep the order they had.
C22_SortedStablePermutation ==
    last.name = "mergeSort" =>
        /\ pc = "done"
        /\ Len(objs.arr) = Len(last.arr)
        /\ \A i \in 1..Len(last.arr) : \E j \in 1..Len(objs.arr) : objs.arr[j] = last.arr[i]
        /\ \A i \in 1..Len(objs.arr) - 1 : Compare(last.cb, objs.arr[i], objs.arr[i + 1]) <= 0
        /\ \A i, j \in 1..Len(objs.arr) :
               (i < j /\ Compare(last.cb, objs.arr[i], objs.arr[j]) = 0) =>
                   objs.arr[i].id < objs.arr[j].id

\* an array that was not in order is sorted, with two elements of different
\* keys that compare equal
C22_Witness ==
    /\ last.name = "mergeSort"
    /\ objs.arr # last.arr
    /\ \E i \in 1..Len(objs.arr) - 1 :
           /\ Compare(last.cb, objs.arr[i], objs.arr[i + 1]) = 0
           /\ objs.arr[i].key # objs.arr[i + 1].key
    /\ Len(objs.arr) >= 3

\* ---- C23

\* column i (0, 1, 2) of the upper-left block
Column(te, i) == Vector3(At(te, 4 * i), At(te, 4 * i + 1), At(te, 4 * i + 2))

\* v is the length of the vector: not negative, with the square of the length
IsLengthOf(v, vector) == ~Lt(v, Zero) /\ Mul(v, v) = lengthSquared(vector)

\* the number of negative components of a scale is odd
OddNegatives(scale) ==
    Cardinality({ c \in {"x", "y", "z"} : Lt(scale[c], Zero) }) \in {1, 3}

NumberAbs(v) == IF Lt(v, Zero) THEN Neg(v) ELSE v

UnitAxis(k) == Vector3(Div(k.x, length(k)), Div(k.y, length(k)), Div(k.z, length(k)))

\* entry (r, c) of the cross-product matrix [k]x of a vector k, r, c in 0..2
CrossEntry(k, r, c) ==
    CASE r = c -> Zero
      [] <<r, c>> = <<0, 1>> -> Neg(k.z)
      [] <<r, c>> = <<0, 2>> -> k.y
      [] <<r, c>> = <<1, 0>> -> k.z
      [] <<r, c>> = <<1, 2>> -> Neg(k.x)
      [] <<r, c>> = <<2, 0>> -> Neg(k.y)
      [] <<r, c>> = <<2, 1>> -> k.x

Component(k, i) == CASE i = 0 -> k.x [] i = 1 -> k.y [] i = 2 -> k.z

\* the Rodrigues rotation matrix cos.I + sin.[k]x + (1 - cos).k.kT of a unit
\* axis k, as a column-major 4x4 matrix
Rodrigues(angle, k) ==
    [i \in 1..16 |->
        LET r == (i - 1) % 4
            c == (i - 1) \div 4
        IN  IF r = 3 \/ c = 3 THEN (IF r = c THEN One ELSE Zero)
            ELSE Add(Add(IF r = c THEN Cos(angle) ELSE Zero,
                         Mul(Sin(angle), CrossEntry(k, r, c))),
                     Mul3(Sub(One, Cos(angle)), Component(k, r), Component(k, c)))]

\* the last call is a rotate about an axis that is not zero
RotatedAboutAxis == last.name = "rotate" /\ last.axis # Vector3(Zero, Zero, Zero)

\* C24: rotate(angle, axis) with an axis that is not zero makes the receiver
\* its old value times the Rodrigues rotation matrix of axis / |axis|; the
\* entries 12 to 15 are unchanged, rotate(0, axis) changes nothing, and the
\* axis multiplied by a positive factor gives the same result.
C24_RodriguesPostMultiplication ==
    RotatedAboutAxis =>
        /\ m = MatProduct(pre, Rodrigues(last.angle, UnitAxis(last.axis)))
        /\ \A i \in 12..15 : At(m, i) = At(pre, i)
        /\ last.angle = AngleZero => m = pre
        /\ \A factor \in {N(2), Q(1, 2), N(3)} :
               m = rotate(pre, last.angle, multiplyScalar(last.axis, factor))

\* a rotation by an angle that is not 0 about (1, 2, 2) changes the matrix
C24_Witness ==
    /\ RotatedAboutAxis
    /\ last.axis = Vector3(N(1), N(2), N(2))
    /\ last.angle # AngleZero
    /\ m # pre
    /\ m = MatProduct(pre, Rodrigues(last.angle, UnitAxis(last.axis)))

\* ---- C25

\* the vector with the opposite components
Opposite(v) == Vector3(Neg(v.x), Neg(v.y), Neg(v.z))

\* row i (0..2) of the upper-left 3x3 of the matrix
Row(e, i) == Vector3(At(e, i), At(e, i + 4), At(e, i + 8))

\* the forward direction of the view
ViewForward(eye, target) == unit(Minus(target, eye))

\* the side direction of the view
ViewSide(eye, target, up) == unit(Times(ViewForward(eye, target), up))

\* C25: for eye # target and up not parallel to target - eye, lookAt
\* overwrites all 16 entries whatever the receiver held: the last row is
\* [0, 0, 0, 1], the rows of the rotation are the unit side vector
\* forward x up, the recomputed up vector side x forward and the opposite of
\* the unit forward vector, the eye is mapped to (0, 0, 0) and the target to
\* (0, 0, -|target - eye|).
C25_ViewMatrix ==
    (/\ pc = "applied"
     /\ last.name = "lookAt"
     /\ last.eye # last.target
     /\ Times(Minus(last.target, last.eye), last.up) # ZeroVector) =>
        /\ At(m, 3) = Zero /\ At(m, 7) = Zero /\ At(m, 11) = Zero /\ At(m, 15) = One
        /\ Row(m, 0) = ViewSide(last.eye, last.target, last.up)
        /\ Row(m, 1) = Times(ViewSide(last.eye, last.target, last.up),
                             ViewForward(last.eye, last.target))
        /\ Row(m, 2) = Opposite(ViewForward(last.eye, last.target))
        /\ \A i \in 0..2 : RowTimesPoint(m, i, last.eye) = Zero
        /\ RowTimesPoint(m, 0, last.target) = Zero
        /\ RowTimesPoint(m, 1, last.target) = Zero
        /\ RowTimesPoint(m, 2, last.target) = Neg(distanceTo(last.target, last.eye))
        /\ RowTimesPoint(m, 3, last.target) = One

\* a view that turns the axes and moves the eye, written over a receiver
\* that was not the identity
C25_Witness ==
    /\ pc = "applied"
    /\ last.name = "lookAt"
    /\ last.eye # last.target
    /\ Times(Minus(last.target, last.eye), last.up) # ZeroVector
    /\ pre # Identity
    /\ Row(m, 0) # Vector3(One, Zero, Zero)
    /\ last.eye # ZeroVector
    /\ At(m, 14) # Zero

\* ---- C26

\* the homogeneous points the shadow matrix is applied to
HomogeneousPoints ==
    { Vector4(N(x), N(y), N(z), N(w)) : x \in {-1, 0, 2}, y \in {-1, 0, 1},
                                        z \in {0, 1, 3}, w \in {0, 1, 2} }

\* the matrix times the homogeneous point p
MatrixTimesVector4(e, p) ==
    [x |-> Add(Add(Add(Mul(At(e, 0), p.x), Mul(At(e, 4), p.y)), Mul(At(e, 8), p.z)),
               Mul(At(e, 12), p.w)),
     y |-> Add(Add(Add(Mul(At(e, 1), p.x), Mul(At(e, 5), p.y)), Mul(At(e, 9), p.z)),
               Mul(At(e, 13), p.w)),
     z |-> Add(Add(Add(Mul(At(e, 2), p.x), Mul(At(e, 6), p.y)), Mul(At(e, 10), p.z)),
               Mul(At(e, 14), p.w)),
     w |-> Add(Add(Add(Mul(At(e, 3), p.x), Mul(At(e, 7), p.y)), Mul(At(e, 11), p.z)),
               Mul(At(e, 15), p.w))]

\* the homogeneous point p scaled by k
ScaledVector4(p, k) == Vector4(Mul(p.x, k), Mul(p.y, k), Mul(p.z, k), Mul(p.w, k))

\* a * p.x + b * p.y + c * p.z + d * p.w
PlaneValue(plane, p) ==
    Add(Add(Add(Mul(plane.a, p.x), Mul(plane.b, p.y)), Mul(plane.c, p.z)),
        Mul(plane.d, p.w))

\* C26: dropShadow sets the receiver to receiver_old * S, where S is built
\* from the plane and the light only; S maps every homogeneous point into
\* the plane, a * q.x + b * q.y + c * q.z + d * q.w = 0 for q = S * p, and
\* maps every point of the plane to itself scaled by plane . light.
C26_ProjectsOntoPlane ==
    (pc = "applied" /\ last.name = "dropShadow") =>
        /\ m = MatProduct(pre, shadowMatrix(last.plane, last.light))
        /\ \A p \in HomogeneousPoints :
               /\ PlaneValue(last.plane,
                             MatrixTimesVector4(shadowMatrix(last.plane, last.light), p))
                      = Zero
               /\ PlaneValue(last.plane, p) = Zero =>
                      MatrixTimesVector4(shadowMatrix(last.plane, last.light), p)
                          = ScaledVector4(p, PlaneValue(last.plane, last.light))

\* a shadow that is not degenerate, multiplied into a receiver that was not
\* the identity, with a point off the plane moved into it
C26_Witness ==
    /\ pc = "applied"
    /\ last.name = "dropShadow"
    /\ PlaneValue(last.plane, last.light) # Zero
    /\ pre # Identity
    /\ m # pre
    /\ \E p \in HomogeneousPoints :
           /\ PlaneValue(last.plane, p) # Zero
           /\ MatrixTimesVector4(shadowMatrix(last.plane, last.light), p)
                  # ScaledVector4(p, Zero)

\* ---- C27

\* the field of the angle read through asin, for each order
AsinField(o) ==
    CASE o = XYZ -> "y" [] o = ZYX -> "y"
      [] o = YXZ -> "x" [] o = ZXY -> "x"
      [] o = YZX -> "z" [] o = XZY -> "z"

\* the orders that negate the clamped element before asin
NegatedOrders == {YXZ, ZYX, XZY}

\* v brought into [-1, 1]
Limited(v) ==
    IF Lt(One, v) THEN One
    ELSE IF Lt(v, Neg(One)) THEN Neg(One)
    ELSE v

\* the angle lies in [-pi/2, pi/2]
InAsinRange(a) ==
    \/ a[1] = "asin" /\ Le(Neg(One), a[2]) /\ Le(a[2], One)
    \/ a[1] = "ray" /\ a[2] >= 0

\* C27: for each of the 6 orders and every matrix with finite entries, also
\* entries outside [-1, 1], Euler.setFromRotationMatrix passes asin an
\* argument in [-1, 1] (the element limited to [-1, 1], negated for YXZ, ZYX
\* and XZY), the angle read through asin lies in [-pi/2, pi/2] and is not
\* NaN, the matrix is not modified, and when the limited element has
\* absolute value 1 the two other angles are those of the pole branch.
C27_ClampedAsin ==
    (/\ pc = "applied"
     /\ last.name = "setFromRotationMatrix"
     /\ \A i \in 0..15 : IsFinite(At(last.matrix, i))) =>
        LET t == Branches(last.order, last.matrix) IN
        /\ outEuler[AsinField(last.order)] # AngleNaN
        /\ InAsinRange(outEuler[AsinField(last.order)])
        /\ Sin(outEuler[AsinField(last.order)])
               = IF last.order \in NegatedOrders THEN Neg(Limited(t.el))
                 ELSE Limited(t.el)
        /\ m = pre
        /\ NumAbs(Limited(t.el)) = One =>
               outEuler[t.a] = t.poleA /\ outEuler[t.b] = t.poleB

\* the element 2 read through asin as 1: the angle is pi/2 (-pi/2 for the
\* orders that negate) and the other angles are those of the pole branch,
\* which differ from the ordinary ones
C27_Witness ==
    /\ pc = "applied"
    /\ last.name = "setFromRotationMatrix"
    /\ Branches(last.order, last.matrix).el = N(2)
    /\ \A i \in 0..15 : IsFinite(At(last.matrix, i))
    /\ outEuler[AsinField(last.order)]
           = IF last.order \in NegatedOrders THEN Ray(0, -1) ELSE Ray(0, 1)
    /\ outEuler[Branches(last.order, last.matrix).a]
           # Branches(last.order, last.matrix).ordA

\* ---- C28

\* every component of the vector is 0
IsZeroVector(v) == \A f \in DOMAIN v : v[f] = Zero

Permutations4 == { p \in [0..3 -> 0..3] : \A i, j \in 0..3 : p[i] = p[j] => i = j }

\* the sign of the permutation: -1 to the number of its inversions
Signature(p) ==
    IF Cardinality({ ij \in (0..3) \X (0..3) : ij[1] < ij[2] /\ p[ij[1]] > p[ij[2]] }) % 2 = 0
    THEN One ELSE Neg(One)

\* the permutations in ps, each with its sign, one after the other
RECURSIVE Listed(_)
Listed(ps) ==
    IF ps = {} THEN << >>
    ELSE LET Rest(p) == << <<p, Signature(p)>> >> \o Listed(ps \ {p})
         IN  Rest(CHOOSE p \in ps : TRUE)

SignedPermutations == Listed(Permutations4)

\* the sum of the signed products of the first k permutations
RECURSIVE SignedSum(_, _)
SignedSum(te, k) ==
    IF k = 0 THEN Zero
    ELSE LET Term(p, sign) ==
                 Mul(sign, Mul(Mul(At(te, 4 * p[0]), At(te, 4 * p[1] + 1)),
                               Mul(At(te, 4 * p[2] + 2), At(te, 4 * p[3] + 3))))
         IN  Add(Term(SignedPermutations[k][1], SignedPermutations[k][2]),
                 SignedSum(te, k - 1))

\* the determinant as the sum over all permutations of the signed products
\* of one entry of each row and column
ReferenceDeterminant(te) == SignedSum(te, Len(SignedPermutations))

\* every entry of the matrix is a finite number
FiniteMatrix(te) == \A i \in 0..15 : IsFinite(At(te, i))

\* C29: for every matrix of finite numbers that invert is called on, the
\* value det computed inside invert, s[0] * inv[0] + s[1] * inv[4] + s[2] * inv[8] + s[3] * inv[12],
\* equals determinant(), and both equal the determinant of the matrix (1 for
\* the identity); so invert returns at its det === 0 test, leaving the
\* receiver as it was, exactly when determinant() is 0, and stores the
\* cofactors divided by the determinant otherwise.
C29_DeterminantsAgree ==
    /\ (pc = "ready" /\ FiniteMatrix(m)) =>
           /\ invertDet(m) = determinant(m)
           /\ determinant(m) = ReferenceDeterminant(m)
    /\ determinant(Identity) = One
    /\ (pc = "applied" /\ last.name = "invert" /\ FiniteMatrix(pre)) =>
           /\ Eq(determinant(pre), Zero) => m = pre
           /\ ~Eq(determinant(pre), Zero) =>
                  LET Divided(inv, det) == [i \in 1..16 |-> Div(inv[i], det)]
                  IN  m = Divided(invCofactors(pre), determinant(pre))

\* invert on a matrix with determinant other than 0 and 1 and with entries
\* off the diagonal, and the three determinants equal
C29_Witness ==
    /\ pc = "applied"
    /\ last.name = "invert"
    /\ FiniteMatrix(pre)
    /\ ~Eq(determinant(pre), Zero)
    /\ ~Eq(determinant(pre), One)
    /\ At(pre, 4) # Zero
    /\ invertDet(pre) = ReferenceDeterminant(pre)
    /\ m # pre

\* ---- C30

\* the angle pi: its half has cosine 0 and sine 1
AnglePi == Ray(-1, 0)

\* the signs of the second terms of x, y, z and w in the case of the order:
\* each is read where the first term of the component is 0 and the second
\* term is 1 or -1
SignPattern(o) ==
    << setFromEuler(Euler(AngleZero, AnglePi, AnglePi, o)).x,
       setFromEuler(Euler(AnglePi, AngleZero, AnglePi, o)).y,
       setFromEuler(Euler(AnglePi, AnglePi, AngleZero, o)).z,
       setFromEuler(Euler(AnglePi, AnglePi, AnglePi, o)).w >>

\* x^2 + y^2 + z^2 + w^2
QuaternionNorm(q) == Add(Add(Add(Mul(q.x, q.x), Mul(q.y, q.y)), Mul(q.z, q.z)), Mul(q.w, q.w))

\* the determinant of the upper-left 3x3 block
BlockDeterminant(te) == dot(Column(te, 0), Times(Column(te, 1), Column(te, 2)))

\* C30: for each of the 6 orders and all half-angle sines and cosines with
\* s^2 + c^2 = 1, Quaternion.setFromEuler leaves x^2 + y^2 + z^2 + w^2 = 1;
\* compose with scale (1, 1, 1) then writes an upper-left 3x3 block whose
\* columns have length 1 and are perpendicular to each other, with
\* determinant +1; and no two of the six orders have the same signs of the
\* second terms of x, y, z and w.
C30_UnitQuaternion ==
    /\ (/\ last.name = "compose"
        /\ last.scale = UnitScale
        /\ \A a \in {last.euler.x, last.euler.y, last.euler.z} :
               Add(Mul(SinHalf(a), SinHalf(a)), Mul(CosHalf(a), CosHalf(a))) = One) =>
           /\ QuaternionNorm(quat) = One
           /\ \A i, j \in 0..2 :
                  dot(Column(m, i), Column(m, j)) = IF i = j THEN One ELSE Zero
           /\ BlockDeterminant(m) = One
    /\ \A o \in EulerOrder :
           /\ \A i \in 1..4 : SignPattern(o)[i] \in {One, Neg(One)}
           /\ \A p \in EulerOrder : SignPattern(o) = SignPattern(p) => o = p

\* compose with scale (1, 1, 1) from three angles that are not 0, in an order
\* other than XYZ: the quaternion has four components that are not 0 and
\* the block is not the identity
C30_Witness ==
    /\ last.name = "compose"
    /\ last.scale = UnitScale
    /\ last.euler.order = YZX
    /\ AngleZero \notin {last.euler.x, last.euler.y, last.euler.z}
    /\ Zero \notin {quat.x, quat.y, quat.z, quat.w}
    /\ QuaternionNorm(quat) = One
    /\ Column(m, 0) # Vector3(One, Zero, Zero)

====
